---- MODULE Spec2Model ----
(***************************************************************************)
(* Model of the record reconciliation engine of cloudflare-ddns            *)
(* (src/src/cloudflare_ddns.py, class CloudFlare): the two cache views,    *)
(* the zone load, the three mutating helpers and the passes                *)
(* update_records_new / create_records_new / delete_records_new, run       *)
(* against a provider that answers every call with success or failure      *)
(* (Spec); one call of __request__ attempt by attempt (SpecRequest); zone  *)
(* resolution by sort_zones and split_domain (SpecSplit).                  *)
(*                                                                         *)
(* Domain names are sequences of labels: "home.example.com" is             *)
(* <<"home", "example", "com">>, so f"{prefix}.{zone}" is concatenation    *)
(* and str.removesuffix("." + zone) is a suffix test on labels.            *)
(***************************************************************************)
EXTENDS Integers, Sequences, FiniteSets, TLC

VARIABLES remote, next_id, dns_records, zones, pc, op, run, records_dict,
          todo_zones, todo_groups, group, t_current_records_dict,
          t_exist_contents, t_extra_records, t_non_exist_contents, calls,
          list_calls, record_id_list_for_del, todo_del, slept,
          t_try, attempts, ret,
          listed, domain, split,
          helper,
          args, proc,
          paging, sessions

\* the session, the provider and the pass in progress
sessionvars == <<remote, next_id, dns_records, zones, pc, op, run, records_dict,
                 todo_zones, todo_groups, group, t_current_records_dict,
                 t_exist_contents, t_extra_records, t_non_exist_contents, calls,
                 list_calls, record_id_list_for_del, todo_del, slept>>

\* one call of __request__: the attempts made and what it returned
requestvars == <<t_try, attempts, ret>>

\* one call of split_domain: the zones as listed, the argument, the result
splitvars == <<listed, domain, split>>

\* one call of a mutating helper: the function and its arguments
helpervars == <<helper>>

\* one run of main: the command line and the process
mainvars == <<args, proc>>

\* one run of a list loop, page by page
pagingvars == <<paging>>

\* the session objects of the process and the attributes of the class
objectvars == <<sessions>>

vars == <<sessionvars, requestvars, splitvars, helpervars, mainvars, pagingvars, objectvars>>

passvars == <<op, run, records_dict>>

(***************************************************************************)
(* Bounds of the model.                                                    *)
(***************************************************************************)
\* groups (zone, prefix, type) in one target tree
MaxGroups == 2
\* create calls of one pass (caps the create loop of update_records_new)
MaxCreates == 3
\* passes run in a row in one process
MaxRuns == 2
\* records per list page (the program asks for 200, line 83)
per_page == 2

(***************************************************************************)
(* Vocabulary.                                                             *)
(***************************************************************************)
valid_record_type == {"A", "AAAA", "CNAME"}

Types == {"A", "CNAME"}

example_com == <<"example", "com">>

Zones == {example_com}

Prefixes == {<<"home">>, <<"www">>}

\* the contents a record may have, and those a target tree may list
Contents == {"1.2.3.4", "5.6.7.8", "9.9.9.9"}

TargetContents == {"1.2.3.4", "5.6.7.8"}

ContentOrder == <<"1.2.3.4", "5.6.7.8", "9.9.9.9">>

\* ttl values of a target entry; 1 is the "automatic" sentinel
TargetTtls == {1, 300, 600}

\* kwargs.get("ttl") is falsy: no ttl given / no ttl field in the payload
NoTtl == 0

\* CloudFlare.ttl after __init__ without a ttl keyword (main, line 1402)
self_ttl == 300

\* class attribute CloudFlare.proxied, never assigned by the session
self_proxied == FALSE

Groups == {<<z, p, t>> : z \in Zones, p \in Prefixes, t \in Types}

GroupOrder ==
    << <<example_com, <<"home">>, "A">>, <<example_com, <<"home">>, "CNAME">>,
       <<example_com, <<"www">>, "A">>, <<example_com, <<"www">>, "CNAME">> >>

ZoneOrder == <<example_com>>

\* a zone of the account that no target tree names
example_org == <<"example", "org">>

\* the keys of self.zones after __init_zones__, and self.zones_list
KnownZones == Zones \cup {example_org}

KnownZoneOrder == <<example_com, example_org>>

EmptyMap == [x \in {} |-> 0]

Restrict(f, S) == [x \in S |-> f[x]]

Range(s) == {s[i] : i \in DOMAIN s}

\* the members of S in the order of the sequence ord (dict iteration order)
SeqOf(ord, S) == SelectSeq(ord, LAMBDA x : x \in S)

(***************************************************************************)
(* Names.                                                                  *)
(***************************************************************************)
\* f"{t_prefix}.{t_zone}"
FullName(prefix, zone) == prefix \o zone

\* str(t_name).removesuffix(f".{t_zone}")
RemoveSuffix(name, zone) ==
    IF /\ Len(name) > Len(zone)
       /\ SubSeq(name, Len(name) - Len(zone) + 1, Len(name)) = zone
    THEN SubSeq(name, 1, Len(name) - Len(zone))
    ELSE name

(***************************************************************************)
(* Records as the provider returns them.                                   *)
(***************************************************************************)
Rec(id, zone, name, type, content, ttl, proxied) ==
    [id |-> id, zone_name |-> zone, name |-> name, type |-> type,
     content |-> content, ttl |-> ttl, proxied |-> proxied]

\* the records a zone may hold before the session starts
Pool ==
    (1 :> Rec(1, example_com, <<"home", "example", "com">>, "A", "1.2.3.4", 300, FALSE))
 @@ (2 :> Rec(2, example_com, <<"home", "example", "com">>, "A", "5.6.7.8", 300, FALSE))
 @@ (3 :> Rec(3, example_com, <<"www", "example", "com">>, "CNAME", "1.2.3.4", 1, TRUE))
 @@ (4 :> Rec(4, example_com, <<"www", "example", "com">>, "A", "5.6.7.8", 300, FALSE))
 @@ (5 :> Rec(5, example_com, <<"home", "example", "com">>, "A", "9.9.9.9", 300, FALSE))

\* the provider's own rule: a CNAME record is alone on its name
CnameAlone(recs) ==
    \A i, j \in DOMAIN recs :
        (i # j /\ recs[i].name = recs[j].name /\ recs[i].zone_name = recs[j].zone_name)
            => (recs[i].type # "CNAME" /\ recs[j].type # "CNAME")

(***************************************************************************)
(* The provider (remote side of __request__).  remote maps the ids of the  *)
(* records the provider holds to the records.                              *)
(***************************************************************************)
RECURSIVE SortIds(_)
SortIds(S) ==
    IF S = {} THEN <<>>
    ELSE LET m == CHOOSE x \in S : \A y \in S : x <= y
         IN  <<m>> \o SortIds(S \ {m})

\* GET zones/<id>/dns_records: the records of the zone, in id order
Listing(rem, zone) ==
    LET ids == SortIds({i \in DOMAIN rem : rem[i].zone_name = zone})
    IN  [n \in DOMAIN ids |-> rem[ids[n]]]

Min(a, b) == IF a <= b THEN a ELSE b

\* the "result" of page number page (params page, per_page)
PageOf(listing, page) ==
    SubSeq(listing, (page - 1) * per_page + 1, Min(page * per_page, Len(listing)))

\* the pagination loop: the number of the page at which fetched >= total_count
RECURSIVE ListLoop(_, _, _)
ListLoop(listing, page, fetched) ==
    LET count == Len(PageOf(listing, page))
    IN  IF fetched + count >= Len(listing) THEN page
        ELSE ListLoop(listing, page + 1, fetched + count)

\* mutant: only the records of page 1 are kept
FirstPages_pageone(listing, k) == SubSeq(listing, 1, Min(per_page, Len(listing)))

\* the records of pages 1..k
FirstPages(listing, k) == SubSeq(listing, 1, Min(k * per_page, Len(listing)))

\* POST: the record the provider stores and returns for payload data
ProviderCreated(id, zone, data) ==
    Rec(id, zone, data.name, data.type, data.content, data.ttl, data.proxied)

\* PUT: the record the provider stores and returns; a payload without ttl
\* leaves the ttl to the provider (absent_ttl)
ProviderUpdated(old, data, absent_ttl) ==
    Rec(old.id, old.zone_name, data.name, data.type, data.content,
        IF data.ttl = NoTtl THEN absent_ttl ELSE data.ttl, data.proxied)

(***************************************************************************)
(* Request builder.                                                        *)
(***************************************************************************)
\* __create_one_record__, lines 416-427, on a session whose self.ttl is
\* default_ttl
CreatePayloadWith(default_ttl, name, type, content, ttl, proxied) ==
    LET t == IF ttl # NoTtl /\ ttl # 1 THEN ttl ELSE default_ttl
    IN  IF proxied
        THEN [type |-> type, name |-> name, content |-> content,
              ttl |-> 1, proxied |-> TRUE]
        ELSE [type |-> type, name |-> name, content |-> content,
              ttl |-> t, proxied |-> self_proxied]

CreatePayload(name, type, content, ttl, proxied) ==
    CreatePayloadWith(self_ttl, name, type, content, ttl, proxied)

\* mutant: the proxied keyword is ignored
UpdatePayload_noproxy(name, type, content, ttl, proxied) ==
    [type |-> type, name |-> name, content |-> content,
     ttl |-> IF ttl # NoTtl /\ ttl # 1 THEN ttl ELSE NoTtl,
     proxied |-> self_proxied]

\* mutant: a proxied update keeps the ttl it was given
UpdatePayload_keepttl(name, type, content, ttl, proxied) ==
    [type |-> type, name |-> name, content |-> content,
     ttl |-> IF ttl # NoTtl /\ ttl # 1 THEN ttl ELSE NoTtl,
     proxied |-> IF proxied THEN TRUE ELSE self_proxied]

UpdatePayload(name, type, content, ttl, proxied) ==
    LET t == IF ttl # NoTtl /\ ttl # 1 THEN ttl ELSE NoTtl
    IN  IF proxied
        THEN [type |-> type, name |-> name, content |-> content,
              ttl |-> 1, proxied |-> TRUE]
        ELSE [type |-> type, name |-> name, content |-> content,
              ttl |-> t, proxied |-> self_proxied]

(***************************************************************************)
(* The cache.  dns_records is the per-ID map; zones[z].records is the      *)
(* nested view name -> type -> content -> id, kept as a map from the key   *)
(* <<name, type, content>> to the id; zones[z].has_records says that the   *)
(* "records" key exists.                                                   *)
(***************************************************************************)
KeyOf(r) == <<r.name, r.type, r.content>>

zones_list == KnownZoneOrder

\* __get_zone_name__: the name itself when it is a zone, else the first
\* zone of zones_list that is a suffix of it
get_zone_name(name) ==
    IF name \in KnownZones THEN name
    ELSE LET hits == SelectSeq(zones_list, LAMBDA z : RemoveSuffix(name, z) # name)
         IN  IF hits = <<>> THEN <<>> ELSE Head(hits)

\* mutant: the records of the name are returned whatever their type
get_records_for_domain_and_type_anytype(zs, zone, prefix, type) ==
    LET recs == zs[zone].records
        name == FullName(prefix, zone)
        cs   == {c \in Contents : \E k \in DOMAIN recs : k[1] = name /\ k[3] = c}
    IN  [c \in cs |-> recs[CHOOSE k \in DOMAIN recs : k[1] = name /\ k[3] = c]]

\* __get_records_for_domain_and_type__: a copy of content -> id
get_records_for_domain_and_type(zs, zone, prefix, type) ==
    LET recs == zs[zone].records
        name == FullName(prefix, zone)
        cs   == {c \in Contents : <<name, type, c>> \in DOMAIN recs}
    IN  [c \in cs |-> recs[<<name, type, c>>]]

\* the local dns_records of __init_records_for_zone__: the last record
\* listed for a key wins
LocalRecords(fetched) ==
    LET keys == {KeyOf(fetched[i]) : i \in DOMAIN fetched}
        last(k) == CHOOSE i \in DOMAIN fetched :
                       /\ KeyOf(fetched[i]) = k
                       /\ \A j \in DOMAIN fetched : j > i => KeyOf(fetched[j]) # k
    IN  [k \in keys |-> fetched[last(k)].id]

\* self.dns_records[t_record["id"]] = t_record, for every fetched record
DnsRecordsAfterFetch(dr, fetched) ==
    LET ids == {fetched[i].id : i \in DOMAIN fetched}
        rec(id) == fetched[CHOOSE i \in DOMAIN fetched : fetched[i].id = id]
    IN  [id \in DOMAIN dr \cup ids |-> IF id \in ids THEN rec(id) ELSE dr[id]]

\* self.zones[zone_name]["records"].update(dns_records): every name of the
\* fetch replaces the cached subtree of that name
ZoneRecordsAfterFetch(recs, local) ==
    LET names == {k[1] : k \in DOMAIN local}
        kept  == {k \in DOMAIN recs : k[1] \notin names}
    IN  [k \in kept \cup DOMAIN local |->
            IF k \in DOMAIN local THEN local[k] ELSE recs[k]]

\* __create_one_record__, lines 435-445
DnsRecordsAfterCreate(dr, t_record) ==
    [id \in DOMAIN dr \cup {t_record.id} |->
        IF id = t_record.id THEN t_record ELSE dr[id]]

ZoneRecordsAfterCreate(recs, t_record) ==
    [k \in DOMAIN recs \cup {KeyOf(t_record)} |->
        IF k = KeyOf(t_record) THEN t_record.id ELSE recs[k]]

\* mutant: the returned record is not stored in the per-ID map
DnsRecordsAfterUpdate_stale(dr, record_id, t_record) == dr

\* __update_record_by_id__, lines 503-509
DnsRecordsAfterUpdate(dr, record_id, t_record) ==
    [id \in DOMAIN dr \cup {record_id} |->
        IF id = record_id THEN t_record ELSE dr[id]]

\* mutant: the entry of the old content is left in the nested view
ZoneRecordsAfterUpdate_keepold(recs, name, type, old_content, content, record_id) ==
    [k \in DOMAIN recs \cup {<<name, type, content>>} |->
        IF k = <<name, type, content>> THEN record_id ELSE recs[k]]

ZoneRecordsAfterUpdate(recs, name, type, old_content, content, record_id) ==
    IF old_content # content
    THEN [k \in (DOMAIN recs \ {<<name, type, old_content>>})
                    \cup {<<name, type, content>>} |->
            IF k = <<name, type, content>> THEN record_id ELSE recs[k]]
    ELSE recs

\* mutant: the record stays in the per-ID map
DnsRecordsAfterDelete_keep(dr, record_id) == dr

\* __delete_record_by_id__, lines 555-556
DnsRecordsAfterDelete(dr, record_id) == Restrict(dr, DOMAIN dr \ {record_id})

ZoneRecordsAfterDelete(recs, key) == Restrict(recs, DOMAIN recs \ {key})

\* the "double check" of __update_record_by_id__ (lines 465-480)
UpdateCheckOK(dr, zs, record_id, zone, name, type) ==
    /\ record_id \in DOMAIN dr
    /\ zs[zone].has_records
    /\ <<name, type, dr[record_id].content>> \in DOMAIN zs[zone].records
    /\ zs[zone].records[<<name, type, dr[record_id].content>>] = record_id

\* the "double check" of __delete_record_by_id__ (lines 520-541)
DeleteCheckOK(dr, zs, record_id) ==
    /\ record_id \in DOMAIN dr
    /\ zs[dr[record_id].zone_name].has_records
    /\ KeyOf(dr[record_id]) \in DOMAIN zs[dr[record_id].zone_name].records
    /\ zs[dr[record_id].zone_name].records[KeyOf(dr[record_id])] = record_id

(***************************************************************************)
(* Target trees: zone -> prefix -> type -> content -> (ttl, proxied), kept *)
(* as a map from the group <<zone, prefix, type>> to content -> <<ttl,     *)
(* proxied>>.  Groups and contents are visited in GroupOrder and           *)
(* ContentOrder (the insertion order of the dicts).                        *)
(***************************************************************************)
GroupSets == {D \in SUBSET Groups : Cardinality(D) \in 1..MaxGroups}

TargetTrees ==
    UNION { UNION { {[g \in D |-> [c \in cs[g] |-> a]] : a \in TargetTtls \X BOOLEAN}
                    : cs \in [D -> (SUBSET TargetContents) \ {{}}] }
            : D \in GroupSets }

ZonesOf(tree) == {g[1] : g \in DOMAIN tree}

\* the keys of records_dict[t_zone]
PrefixesOf(tree, zone) == {g[2] : g \in {h \in DOMAIN tree : h[1] = zone}}

\* the keys of t_prefix_obj
TypesOf(tree, zone, prefix) ==
    {g[3] : g \in {h \in DOMAIN tree : h[1] = zone /\ h[2] = prefix}}

Ops == {"update_records_new", "create_records_new", "delete_records_new"}

\* update_records_new, lines 902-909 (the lists keep the contents; ttl and
\* proxied are read back from the tree)
ExistContents(cur, t_dns_obj) ==
    SeqOf(ContentOrder, {c \in DOMAIN t_dns_obj : c \in DOMAIN cur})

\* mutant: every listed content is taken as missing
NonExistContents_all(cur, t_dns_obj) == SeqOf(ContentOrder, DOMAIN t_dns_obj)

NonExistContents(cur, t_dns_obj) ==
    SeqOf(ContentOrder, {c \in DOMAIN t_dns_obj : c \notin DOMAIN cur})

\* mutant: no cached record is found to be extra
ExtraRecords_none(dr, cur, tree, g) == <<>>

\* mutant: every cached record of the group is taken as extra
ExtraRecords_all(dr, cur, tree, g) == SeqOf(ContentOrder, DOMAIN cur)

\* update_records_new, lines 911-925
ExtraRecords(dr, cur, tree, g) ==
    SeqOf(ContentOrder,
          {c \in DOMAIN cur :
              LET t_record == dr[cur[c]]
                  t_prefix == RemoveSuffix(t_record.name, g[1])
              IN  \/ t_prefix \notin PrefixesOf(tree, g[1])
                  \/ t_record.type \notin TypesOf(tree, g[1], g[2])
                  \/ c \notin DOMAIN tree[g]})

\* where the pass goes when a group has nothing left to apply
AfterGroup(tg, tz) ==
    IF tg # <<>> THEN "group" ELSE IF tz # <<>> THEN "zone" ELSE "done"

\* mutant: the delete loop runs before the update loop
Phase_deletefirst(exist, extra, non_exist, tg, tz) ==
    IF extra # <<>> THEN "delete"
    ELSE IF exist # <<>> THEN "update"
    ELSE IF non_exist # <<>> THEN "create"
    ELSE AfterGroup(tg, tz)

\* the loops of one group in the order of the code: update (927-940),
\* delete (942-947), create (949-960)
Phase(exist, extra, non_exist, tg, tz) ==
    IF exist # <<>> THEN "update"
    ELSE IF extra # <<>> THEN "delete"
    ELSE IF non_exist # <<>> THEN "create"
    ELSE AfterGroup(tg, tz)

\* mutant: the error is swallowed and the loop goes on
Raised_swallow(exist, extra, non_exist, tg, tz) ==
    IF exist # <<>> THEN "update"
    ELSE IF extra # <<>> THEN "delete"
    ELSE IF non_exist # <<>> THEN "create"
    ELSE AfterGroup(tg, tz)

\* mutant: the helper returns after a failed call
Raised_returns(exist, extra, non_exist, tg, tz) == "done"

\* a failed call raises CloudFlareError (431-434, 498-502, 550-553); nothing
\* in the pass catches it, so the pass ends there
Raised(exist, extra, non_exist, tg, tz) == "error"

\* what the create loop leaves to do after a create: the while loop of
\* update_records_new (949-960) never removes the head of the list, the for
\* loop of create_records_new (736-750) moves on
RemainingAfterCreate(o, list) ==
    IF o = "update_records_new" THEN list ELSE Tail(list)

\* how one remote call ends for the caller and for the provider
\* (__request__, lines 164-197): "ok" is a response that reports success;
\* "refused" is a failure the provider did not act on (connection failure,
\* status other than 200, success flag false); "lost" is a failure after the
\* provider acted (every response timed out on the way back)
Outcomes == {"ok", "refused", "lost"}

\* the provider acts only on an id it holds
OutcomesFor(held) == IF held THEN Outcomes ELSE {"refused"}

\* mutant: a failed double check ends the pass without an error
CheckRaised_quiet(loop) == "done"

\* the raise of a failed double check (466-467, 474-480, 521-523, 533-541)
CheckRaised(loop) == "error"

\* time.sleep(0.1) closes a turn of the create loop of create_records_new
\* (line 750) and of the delete loop of delete_records_new (line 822); the
\* three loops of update_records_new (927-960) have no sleep
SleepsInLoop(o) == o \in {"create_records_new", "delete_records_new"}

\* slept[i]: the loop turn of call i went on to its sleep; a turn whose call
\* raised, or whose double check raised before any call, never gets there
SleptAfter(s, log, o) ==
    IF Len(log) = Len(s) THEN s
    ELSE Append(s, log[Len(log)].ok /\ SleepsInLoop(o))

\* delete_records_new, lines 801-809: the ids cached for the listed types
\* of one prefix, type by type
RECURSIVE IdsToDelete(_, _)
IdsToDelete(zs, gs) ==
    IF gs = <<>> THEN <<>>
    ELSE LET g == Head(gs)
             cur == get_records_for_domain_and_type(zs, g[1], g[2], g[3])
         IN  [i \in 1..Len(SeqOf(ContentOrder, DOMAIN cur)) |->
                 cur[SeqOf(ContentOrder, DOMAIN cur)[i]]]
             \o IdsToDelete(zs, Tail(gs))

\* the list requests of one load of zone z: pages 1..m, in order
PageRequests(z, m) == [i \in 1..m |-> <<z, i>>]

\* __request__ has not returned / split_domain has not been called
NotReturned == [returned |-> FALSE, succ |-> FALSE, value |-> "none"]

NotSplit == [called |-> FALSE, result |-> <<>>, raised |-> "none",
             lookup |-> [kind |-> "none", zone |-> <<>>]]

Call(kind, id, data, ok) ==
    [kind |-> kind, id |-> id, name |-> data.name, type |-> data.type,
     content |-> data.content, ttl |-> data.ttl, proxied |-> data.proxied,
     ok |-> ok]

Creates(log) == SelectSeq(log, LAMBDA e : e.kind = "create")

Updates(log) == SelectSeq(log, LAMBDA e : e.kind = "update")

Deletes(log) == SelectSeq(log, LAMBDA e : e.kind = "delete")

(***************************************************************************)
(* State after construction: the zones are known, no zone is loaded.       *)
(***************************************************************************)
\* the session after __init__, before any pass
Constructed ==
    /\ next_id = Cardinality(DOMAIN Pool) + 1
    /\ dns_records = EmptyMap
    /\ zones = [z \in KnownZones |-> [id |-> "zone-id", has_records |-> FALSE,
                                 records |-> EmptyMap]]
    /\ pc = "idle"
    /\ op = "none"
    /\ run = 0
    /\ records_dict = EmptyMap
    /\ todo_zones = <<>>
    /\ todo_groups = <<>>
    /\ group = <<>>
    /\ t_current_records_dict = EmptyMap
    /\ t_exist_contents = <<>>
    /\ t_extra_records = <<>>
    /\ t_non_exist_contents = <<>>
    /\ calls = <<>>
    /\ list_calls = <<>>
    /\ record_id_list_for_del = <<>>
    /\ todo_del = <<>>
    /\ slept = <<>>

\* no call of __request__ is being followed
RequestIdle ==
    /\ t_try = 0
    /\ attempts = <<>>
    /\ ret = NotReturned

\* no call of split_domain is being followed
SplitIdle ==
    /\ listed = ZoneOrder
    /\ domain = <<>>
    /\ split = NotSplit

\* no helper call is being followed
NoHelper ==
    [fn |-> "none", self_ttl |-> self_ttl, record_id |-> 0, name |-> <<>>,
     type |-> "none", content |-> "none", ttl |-> NoTtl, proxied |-> FALSE]

HelperIdle == helper = NoHelper

\* main is not being followed
NoArgs ==
    [version |-> FALSE, email |-> FALSE, api_key |-> FALSE, action |-> "none",
     ipv4_addr |-> FALSE, cname |-> FALSE, cname_alias |-> FALSE, raw |-> FALSE,
     raw_alias |-> FALSE, zone |-> "none", alias |-> FALSE, domain |-> "none",
     dns_type |-> "none", raw_fields |-> 5]

NotStarted == [pc |-> "none", code |-> 0, reason |-> "none", requests |-> 0]

MainIdle == args = NoArgs /\ proc = NotStarted

\* no list loop is being followed
NoPaging ==
    [kind |-> "none", total_count |-> 0, page |-> 1, fetched |-> 0, requests |-> 0,
     result_len |-> 0, count |-> 0, zero_count |-> FALSE, state |-> "none"]

PagingIdle == paging = NoPaging

\* no CloudFlare object has been built: zones_list is the list of the class
\* (line 76), objects the objects built so far with the zones of their account
\* and the zones_list of their own (line 274), actor the object that acted
\* last, fresh whether it has just been constructed
NoSessions ==
    [zones_list |-> <<>>, objects |-> <<>>, actor |-> 0, fresh |-> FALSE]

ObjectsIdle == sessions = NoSessions

Init ==
    /\ remote \in {Restrict(Pool, S) :
                      S \in {T \in SUBSET DOMAIN Pool : CnameAlone(Restrict(Pool, T))}}
    /\ Constructed
    /\ RequestIdle
    /\ SplitIdle
    /\ HelperIdle
    /\ MainIdle
    /\ PagingIdle
    /\ ObjectsIdle

\* mutant: every zone of the account is loaded
ZonesToLoad_all(tree) == KnownZoneOrder

\* "for t_zone in records_dict" (lines 712, 789, 885): the zones a pass loads
ZonesToLoad(tree) == SeqOf(ZoneOrder, ZonesOf(tree))

\* main calls update_records_new / create_records_new / delete_records_new
\* with a target tree
StartPass ==
    /\ pc = "idle"
    /\ \E o \in Ops, tree \in TargetTrees :
          /\ op' = o
          /\ records_dict' = tree
          /\ todo_zones' = ZonesToLoad(tree)
    /\ run' = 1
    /\ pc' = "zone"
    /\ UNCHANGED <<remote, next_id, dns_records, zones, todo_groups, group,
                   t_current_records_dict, t_exist_contents, t_extra_records,
                   t_non_exist_contents, calls, list_calls,
                   record_id_list_for_del, todo_del, slept>>
    /\ UNCHANGED <<requestvars, splitvars, helpervars, mainvars, pagingvars, objectvars>>

\* the same pass is run again on the same session object
RunAgain ==
    /\ pc = "done"
    /\ run < MaxRuns
    /\ run' = run + 1
    /\ todo_zones' = ZonesToLoad(records_dict)
    /\ calls' = <<>>
    /\ slept' = <<>>
    /\ pc' = "zone"
    /\ group' = <<>>
    /\ t_current_records_dict' = EmptyMap
    /\ UNCHANGED <<remote, next_id, dns_records, zones, op, records_dict,
                   todo_groups, t_exist_contents, t_extra_records,
                   t_non_exist_contents, list_calls,
                   record_id_list_for_del, todo_del>>
    /\ UNCHANGED <<requestvars, splitvars, helpervars, mainvars, pagingvars, objectvars>>

\* __init_records_for_zone__ for the next zone of the tree: pages 1..k are
\* fetched; the load raises when a page request fails (k < n)
init_records_for_zone ==
    /\ pc = "zone"
    /\ LET z == Head(todo_zones)
           listing == Listing(remote, z)
           n == ListLoop(listing, 1, 0)
       IN  \E k \in 0..n :
             LET fetched == FirstPages(listing, k)
             IN  /\ dns_records' = DnsRecordsAfterFetch(dns_records, fetched)
                 /\ IF k = n
                    THEN /\ zones' = [zones EXCEPT
                                ![z].has_records = TRUE,
                                ![z].records = ZoneRecordsAfterFetch(@, LocalRecords(fetched))]
                         /\ list_calls' = list_calls \o PageRequests(z, n)
                         /\ todo_zones' = Tail(todo_zones)
                         /\ todo_groups' = SeqOf(GroupOrder,
                                {g \in DOMAIN records_dict : g[1] = z})
                         /\ pc' = AfterGroup(todo_groups', todo_zones')
                    ELSE /\ zones' = [zones EXCEPT ![z].has_records = TRUE]
                         /\ list_calls' = list_calls \o PageRequests(z, k + 1)
                         /\ pc' = "error"
                         /\ UNCHANGED <<todo_zones, todo_groups>>
    /\ record_id_list_for_del' = <<>>
    /\ UNCHANGED <<remote, next_id, passvars, group, t_current_records_dict,
                   t_exist_contents, t_extra_records, t_non_exist_contents, calls,
                   todo_del, slept>>
    /\ UNCHANGED <<requestvars, splitvars, helpervars, mainvars, pagingvars, objectvars>>

\* the head of one (zone, prefix, type) group of update_records_new or
\* create_records_new: the snapshot of the cache and the three lists
PlanGroup ==
    /\ pc = "group"
    /\ op # "delete_records_new"
    /\ LET g == Head(todo_groups)
           cur == get_records_for_domain_and_type(zones, g[1], g[2], g[3])
       IN  /\ group' = g
           /\ todo_groups' = Tail(todo_groups)
           /\ t_current_records_dict' = cur
           /\ t_non_exist_contents' = NonExistContents(cur, records_dict[g])
           /\ IF op = "update_records_new"
              THEN IF \A c \in DOMAIN cur : cur[c] \in DOMAIN dns_records
                   THEN /\ t_exist_contents' = ExistContents(cur, records_dict[g])
                        /\ t_extra_records' = ExtraRecords(dns_records, cur, records_dict, g)
                        /\ pc' = Phase(t_exist_contents', t_extra_records',
                                       t_non_exist_contents', todo_groups', todo_zones)
                   ELSE /\ t_exist_contents' = ExistContents(cur, records_dict[g])
                        /\ t_extra_records' = <<>>
                        /\ pc' = "error"
              ELSE /\ t_exist_contents' = <<>>
                   /\ t_extra_records' = <<>>
                   /\ pc' = Phase(<<>>, <<>>, t_non_exist_contents', todo_groups', todo_zones)
    /\ UNCHANGED <<remote, next_id, dns_records, zones, passvars, todo_zones, calls,
                   list_calls, record_id_list_for_del, todo_del, slept>>
    /\ UNCHANGED <<requestvars, splitvars, helpervars, mainvars, pagingvars, objectvars>>

\* the head of one prefix of delete_records_new (lines 794-809): the ids
\* cached for every listed type of the prefix are appended to
\* record_id_list_for_del, and the delete loop then runs over the whole list
PlanPrefix ==
    /\ pc = "group"
    /\ op = "delete_records_new"
    /\ LET g == Head(todo_groups)
           same == SelectSeq(todo_groups, LAMBDA h : h[1] = g[1] /\ h[2] = g[2])
           rest == SelectSeq(todo_groups, LAMBDA h : ~(h[1] = g[1] /\ h[2] = g[2]))
       IN  /\ group' = g
           /\ todo_groups' = rest
           /\ t_current_records_dict' =
                  get_records_for_domain_and_type(zones, g[1], g[2], g[3])
           /\ record_id_list_for_del' = record_id_list_for_del \o IdsToDelete(zones, same)
           /\ todo_del' = record_id_list_for_del'
           /\ pc' = Phase(<<>>, todo_del', <<>>, todo_groups', todo_zones)
    /\ UNCHANGED <<remote, next_id, dns_records, zones, passvars, todo_zones, calls,
                   list_calls, t_exist_contents, t_extra_records,
                   t_non_exist_contents, slept>>
    /\ UNCHANGED <<requestvars, splitvars, helpervars, mainvars, pagingvars, objectvars>>

\* one turn of the update loop (927-940): __update_record_by_id__
update_record_by_id ==
    /\ pc = "update"
    /\ LET t_content == Head(t_exist_contents)
           record_id == t_current_records_dict[t_content]
           zone == group[1]
           name == FullName(group[2], zone)
           type == group[3]
           attr == records_dict[group][t_content]
           data == UpdatePayload(name, type, t_content, attr[1], attr[2])
       IN  IF ~UpdateCheckOK(dns_records, zones, record_id, get_zone_name(name), name, type)
           THEN /\ pc' = CheckRaised("update")
                /\ UNCHANGED <<remote, dns_records, zones, t_exist_contents, calls>>
           ELSE \E out \in OutcomesFor(record_id \in DOMAIN remote) :
                  IF out = "refused"
                  THEN /\ calls' = Append(calls, Call("update", record_id, data, FALSE))
                       /\ pc' = Raised(t_exist_contents, t_extra_records,
                                       t_non_exist_contents, todo_groups, todo_zones)
                       /\ UNCHANGED <<remote, dns_records, zones, t_exist_contents>>
                  ELSE \E absent_ttl \in IF data.ttl = NoTtl
                                         THEN {remote[record_id].ttl, 1}
                                         ELSE {data.ttl} :
                         LET t_record == ProviderUpdated(remote[record_id], data, absent_ttl)
                             old_content == dns_records[record_id].content
                         IN  /\ remote' = [remote EXCEPT ![record_id] = t_record]
                             /\ IF out = "ok"
                                THEN /\ dns_records' = DnsRecordsAfterUpdate(dns_records, record_id, t_record)
                                     /\ zones' = [zones EXCEPT ![zone].records =
                                            ZoneRecordsAfterUpdate(@, name, type, old_content,
                                                                   t_content, record_id)]
                                     /\ t_exist_contents' = Tail(t_exist_contents)
                                     /\ calls' = Append(calls, Call("update", record_id, data, TRUE))
                                     /\ pc' = Phase(t_exist_contents', t_extra_records,
                                                    t_non_exist_contents, todo_groups, todo_zones)
                                ELSE /\ calls' = Append(calls, Call("update", record_id, data, FALSE))
                                     /\ pc' = Raised(t_exist_contents, t_extra_records,
                                                     t_non_exist_contents, todo_groups, todo_zones)
                                     /\ UNCHANGED <<dns_records, zones, t_exist_contents>>
    /\ UNCHANGED <<next_id, passvars, todo_zones, todo_groups, group,
                   t_current_records_dict, t_extra_records, t_non_exist_contents,
                   list_calls, record_id_list_for_del, todo_del>>
    /\ slept' = SleptAfter(slept, calls', op)
    /\ UNCHANGED <<requestvars, splitvars, helpervars, mainvars, pagingvars, objectvars>>

\* one turn of a delete loop (942-947 of update_records_new, 810-822 of
\* delete_records_new): __delete_record_by_id__
delete_record_by_id ==
    /\ pc = "delete"
    /\ LET by_list == op = "delete_records_new"
           record_id == IF by_list THEN Head(todo_del)
                        ELSE t_current_records_dict[Head(t_extra_records)]
       IN  IF ~DeleteCheckOK(dns_records, zones, record_id)
           THEN /\ pc' = CheckRaised("delete")
                /\ UNCHANGED <<remote, dns_records, zones, t_extra_records, todo_del, calls>>
           ELSE LET record == dns_records[record_id]
                    data == [name |-> record.name, type |-> record.type,
                             content |-> record.content, ttl |-> NoTtl,
                             proxied |-> FALSE]
                IN  \E out \in OutcomesFor(record_id \in DOMAIN remote) :
                      /\ remote' = IF out = "refused" THEN remote
                                   ELSE Restrict(remote, DOMAIN remote \ {record_id})
                      /\ IF out = "ok"
                         THEN /\ dns_records' = DnsRecordsAfterDelete(dns_records, record_id)
                              /\ zones' = [zones EXCEPT ![record.zone_name].records =
                                     ZoneRecordsAfterDelete(@, KeyOf(record))]
                              /\ t_extra_records' = IF by_list THEN t_extra_records
                                                    ELSE Tail(t_extra_records)
                              /\ todo_del' = IF by_list THEN Tail(todo_del) ELSE todo_del
                              /\ calls' = Append(calls, Call("delete", record_id, data, TRUE))
                              /\ pc' = Phase(t_exist_contents,
                                             IF by_list THEN todo_del' ELSE t_extra_records',
                                             t_non_exist_contents, todo_groups, todo_zones)
                         ELSE /\ calls' = Append(calls, Call("delete", record_id, data, FALSE))
                              /\ pc' = Raised(t_exist_contents, t_extra_records,
                                              t_non_exist_contents, todo_groups, todo_zones)
                              /\ UNCHANGED <<dns_records, zones, t_extra_records, todo_del>>
    /\ UNCHANGED <<next_id, passvars, todo_zones, todo_groups, group,
                   t_current_records_dict, t_exist_contents, t_non_exist_contents,
                   list_calls, record_id_list_for_del>>
    /\ slept' = SleptAfter(slept, calls', op)
    /\ UNCHANGED <<requestvars, splitvars, helpervars, mainvars, pagingvars, objectvars>>

\* one turn of the create loop (949-960, 736-750): __create_one_record__
create_one_record ==
    /\ pc = "create"
    /\ Len(Creates(calls)) < MaxCreates
    /\ LET t_content == Head(t_non_exist_contents)
           name == FullName(group[2], group[1])
           zone_name == get_zone_name(name)
           type == group[3]
           attr == records_dict[group][t_content]
           data == CreatePayload(name, type, t_content, attr[1], attr[2])
           t_record == ProviderCreated(next_id, zone_name, data)
       IN  \E out \in OutcomesFor(TRUE) :
             /\ remote' = IF out = "refused" THEN remote
                          ELSE (next_id :> t_record) @@ remote
             /\ next_id' = IF out = "refused" THEN next_id ELSE next_id + 1
             /\ IF out = "ok"
                THEN /\ dns_records' = DnsRecordsAfterCreate(dns_records, t_record)
                     /\ zones' = [zones EXCEPT
                            ![zone_name].has_records = TRUE,
                            ![zone_name].records = ZoneRecordsAfterCreate(@, t_record)]
                     /\ t_non_exist_contents' = RemainingAfterCreate(op, t_non_exist_contents)
                     /\ calls' = Append(calls, Call("create", next_id, data, TRUE))
                     /\ pc' = Phase(t_exist_contents, t_extra_records, t_non_exist_contents',
                                    todo_groups, todo_zones)
                ELSE /\ calls' = Append(calls, Call("create", 0, data, FALSE))
                     /\ pc' = Raised(t_exist_contents, t_extra_records, t_non_exist_contents,
                                     todo_groups, todo_zones)
                     /\ UNCHANGED <<dns_records, zones, t_non_exist_contents>>
    /\ UNCHANGED <<passvars, todo_zones, todo_groups, group,
                   t_current_records_dict, t_exist_contents, t_extra_records,
                   list_calls, record_id_list_for_del, todo_del>>
    /\ slept' = SleptAfter(slept, calls', op)
    /\ UNCHANGED <<requestvars, splitvars, helpervars, mainvars, pagingvars, objectvars>>

Next ==
    \/ StartPass
    \/ RunAgain
    \/ init_records_for_zone
    \/ PlanGroup
    \/ PlanPrefix
    \/ update_record_by_id
    \/ delete_record_by_id
    \/ create_one_record

Spec == Init /\ [][Next]_vars

(***************************************************************************)
(* One call of __request__ (lines 149-197), attempt by attempt.            *)
(***************************************************************************)
\* how one HTTP attempt can end: the four exceptions of lines 183-188, a
\* response with a status other than 200, a response whose payload has no
\* true "success", a response that reports success, any other exception
Retryable_all ==
    {"ConnectTimeout", "ConnectionError", "Timeout", "ReadTimeout",
     "StatusNot200", "NoSuccess"}

Retryable == {"ConnectTimeout", "ConnectionError", "Timeout", "ReadTimeout"}

AttemptOutcomes ==
    {"ConnectTimeout", "ConnectionError", "Timeout", "ReadTimeout",
     "StatusNot200", "NoSuccess", "Success", "OtherException"}

\* mutant: the loop allows a fourth attempt
LoopGoesOn_four(t) == t < 4

\* while t_try < 3 (line 164)
LoopGoesOn(t) == t < 3

\* what __request__ returns after an attempt that is not retried (lines
\* 178, 181, 182, 196)
ReturnAfter(outcome) ==
    [returned |-> TRUE,
     succ |-> outcome = "Success",
     value |-> CASE outcome = "StatusNot200" -> "HTTPError"
                 [] outcome = "NoSuccess" -> "payload"
                 [] outcome = "Success" -> "payload"
                 [] OTHER -> "exception"]

\* return False, None (line 197)
ReturnExhausted == [returned |-> TRUE, succ |-> FALSE, value |-> "None"]

\* a caller enters __request__
InitRequest ==
    /\ remote = Pool
    /\ Constructed
    /\ RequestIdle
    /\ SplitIdle
    /\ HelperIdle
    /\ MainIdle
    /\ PagingIdle
    /\ ObjectsIdle

\* one turn of the while loop; the turn that uses up the budget also leaves
\* the loop and returns
request_attempt ==
    /\ ~ret.returned
    /\ LoopGoesOn(t_try)
    /\ \E outcome \in AttemptOutcomes :
          /\ attempts' = Append(attempts, outcome)
          /\ IF outcome \in Retryable
             THEN /\ t_try' = t_try + 1
                  /\ ret' = IF LoopGoesOn(t_try') THEN ret ELSE ReturnExhausted
             ELSE /\ t_try' = t_try
                  /\ ret' = ReturnAfter(outcome)
    /\ UNCHANGED <<sessionvars, splitvars, helpervars, mainvars, pagingvars, objectvars>>

NextRequest == request_attempt

SpecRequest == InitRequest /\ [][NextRequest]_vars

(***************************************************************************)
(* Zone resolution: __init_zones__, sort_zones, split_domain and the zone  *)
(* lookups, for a provider that lists any of ZoneNames in any order.       *)
(***************************************************************************)
\* zones listed by the provider in one account
MaxZones == 3

ZoneNames ==
    {<<"example", "com">>, <<"dev", "example", "com">>,
     <<"example", "org">>, <<"dev", "example", "org">>}

\* the names above as list.sort() orders the strings
Lex ==
    << <<"dev", "example", "com">>, <<"dev", "example", "org">>,
       <<"example", "com">>, <<"example", "org">> >>

\* arguments of split_domain
Domains ==
    {<<"home", "example", "com">>, <<"www", "dev", "example", "com">>,
     <<"dev", "example", "com">>, <<"example", "com">>,
     <<"home", "example", "org">>, <<"home", "example", "net">>}

\* the listings of up to MaxZones zones, without repetition
ZoneListings ==
    {zl \in UNION {[1..n -> ZoneNames] : n \in 1..MaxZones} :
        \A i, j \in DOMAIN zl : i # j => zl[i] # zl[j]}

\* __init_zones__, lines 248-273: the pages requested for a listing (the
\* loop of the record load), and zones_list before it is sorted
InitZonesPages(zl) == ListLoop(zl, 1, 0)

InitZonesList(zl) == FirstPages(zl, InitZonesPages(zl))

\* sort_zones: most labels first, names of equal label count in list.sort()
\* order
RECURSIVE SortByLabels(_, _)
SortByLabels(S, k) ==
    IF k = 0 THEN <<>>
    ELSE SeqOf(Lex, {z \in S : Len(z) = k}) \o SortByLabels(S, k - 1)

sort_zones(zl) ==
    IF zl = <<>> THEN <<>>
    ELSE LET S == Range(zl)
             longest == CHOOSE k \in {Len(z) : z \in S} : \A z \in S : Len(z) <= k
         IN  SortByLabels(S, longest)

\* domain.endswith("." + zone)
EndsWithZone(d, zone) ==
    /\ Len(d) > Len(zone)
    /\ SubSeq(d, Len(d) - Len(zone) + 1, Len(d)) = zone

\* split_domain, lines 611-618: the first zone of zones_list the domain ends
\* with; <<>> is the empty tuple of line 618
split_domain(zl, d) ==
    LET hits == SelectSeq(zl, LAMBDA z : EndsWithZone(d, z))
    IN  IF hits = <<>> THEN <<>>
        ELSE <<RemoveSuffix(d, Head(hits)), Head(hits)>>

\* __get_zone_name__, lines 396-403 (and __get_zone_id__ on top of it):
\* "_, zone_name = self.split_domain(...)" cannot unpack the empty tuple
zone_lookup(zl, d) ==
    IF d \in Range(zl) THEN [kind |-> "return", zone |-> d]
    ELSE IF split_domain(zl, d) = <<>>
         THEN [kind |-> "ValueError", zone |-> <<>>]
         ELSE [kind |-> "return", zone |-> split_domain(zl, d)[2]]

\* a session whose provider listed the zones of listed, and a domain
InitSplit ==
    /\ remote = Pool
    /\ Constructed
    /\ RequestIdle
    /\ listed \in ZoneListings
    /\ domain \in Domains
    /\ split = NotSplit
    /\ HelperIdle
    /\ MainIdle
    /\ PagingIdle
    /\ ObjectsIdle

\* split_domain(domain) and the lookups of domain on the session;
\* split_domain has no raise statement, so it raises nothing
split_domain_call ==
    /\ ~split.called
    /\ split' = [called |-> TRUE,
                 result |-> split_domain(sort_zones(InitZonesList(listed)), domain),
                 raised |-> "none",
                 lookup |-> zone_lookup(sort_zones(InitZonesList(listed)), domain)]
    /\ UNCHANGED <<listed, domain>>
    /\ UNCHANGED <<sessionvars, requestvars, helpervars, mainvars, pagingvars, objectvars>>

NextSplit == split_domain_call

SpecSplit == InitSplit /\ [][NextSplit]_vars

(***************************************************************************)
(* One call of a mutating helper (__create_one_record__,                   *)
(* __update_record_by_id__, __delete_record_by_id__) with any arguments,   *)
(* on a session that has loaded the zone (SpecHelper).                     *)
(***************************************************************************)
\* ttl keywords of a helper call (none, automatic, below and above the
\* minimum of 60) and of CloudFlare(...)
HelperTtls == {NoTtl, 1, 30, 60, 600}

InitTtls == {NoTtl, 30, 3600}

\* __init__, lines 101-103: self.ttl
SessionTtl(ttl) == IF ttl # NoTtl /\ ttl >= 60 THEN ttl ELSE 300

\* the names of the zone
Names == {FullName(p, example_com) : p \in Prefixes}

\* the record ids a caller may pass: those of Pool and one that no record has
HelperIds == 1..(Cardinality(DOMAIN Pool) + 1)

\* a record of rem other than record_id has this name, type and content
HeldByOther(rem, record_id, name, type, content) ==
    \E i \in DOMAIN rem \ {record_id} : KeyOf(rem[i]) = <<name, type, content>>

\* the helper calls followed on a zone that holds rem: a call never asks for
\* a second record of a name, type and content that the zone holds
HelperCalls(rem) ==
    {h \in [fn : {"__create_one_record__"},
            self_ttl : {SessionTtl(k) : k \in InitTtls}, record_id : {0},
            name : Names, type : Types, content : Contents,
            ttl : HelperTtls, proxied : BOOLEAN]
           \cup
           [fn : {"__update_record_by_id__"},
            self_ttl : {self_ttl}, record_id : HelperIds,
            name : Names, type : Types, content : Contents,
            ttl : HelperTtls, proxied : BOOLEAN] :
        ~HeldByOther(rem, h.record_id, h.name, h.type, h.content)}
    \cup
    {[NoHelper EXCEPT !.fn = "__delete_record_by_id__", !.record_id = i] :
        i \in HelperIds}

\* a session that has loaded the zone, and a helper call to follow
InitHelper ==
    /\ remote \in {Restrict(Pool, S) :
                      S \in {T \in SUBSET DOMAIN Pool : CnameAlone(Restrict(Pool, T))}}
    /\ next_id = Cardinality(DOMAIN Pool) + 2
    /\ dns_records = DnsRecordsAfterFetch(EmptyMap, Listing(remote, example_com))
    /\ zones = [z \in KnownZones |->
                   [id |-> "zone-id", has_records |-> z \in Zones,
                    records |-> ZoneRecordsAfterFetch(EmptyMap,
                                    LocalRecords(Listing(remote, z)))]]
    /\ helper \in HelperCalls(remote)
    /\ pc = "helper"
    /\ op = "none"
    /\ run = 0
    /\ records_dict = EmptyMap
    /\ todo_zones = <<>>
    /\ todo_groups = <<>>
    /\ group = <<>>
    /\ t_current_records_dict = EmptyMap
    /\ t_exist_contents = <<>>
    /\ t_extra_records = <<>>
    /\ t_non_exist_contents = <<>>
    /\ calls = <<>>
    /\ list_calls = <<>>
    /\ record_id_list_for_del = <<>>
    /\ todo_del = <<>>
    /\ slept = <<>>
    /\ RequestIdle
    /\ SplitIdle
    /\ MainIdle
    /\ PagingIdle
    /\ ObjectsIdle

\* what a helper call leaves alone
HelperUnchanged ==
    /\ UNCHANGED <<passvars, todo_zones, todo_groups, group, t_current_records_dict,
                   t_exist_contents, t_extra_records, t_non_exist_contents,
                   list_calls, record_id_list_for_del, todo_del, slept>>
    /\ UNCHANGED <<requestvars, splitvars, helpervars, mainvars, pagingvars, objectvars>>

\* __create_one_record__(name, dns_type, content, ttl=, proxied=)
call_create_one_record ==
    /\ pc = "helper"
    /\ helper.fn = "__create_one_record__"
    /\ LET zone_name == get_zone_name(helper.name)
           data == CreatePayloadWith(helper.self_ttl, helper.name, helper.type,
                                     helper.content, helper.ttl, helper.proxied)
           t_record == ProviderCreated(next_id, zone_name, data)
       IN  \E out \in OutcomesFor(TRUE) :
             /\ remote' = IF out = "refused" THEN remote
                          ELSE (next_id :> t_record) @@ remote
             /\ next_id' = IF out = "refused" THEN next_id ELSE next_id + 1
             /\ IF out = "ok"
                THEN /\ dns_records' = DnsRecordsAfterCreate(dns_records, t_record)
                     /\ zones' = [zones EXCEPT
                            ![zone_name].has_records = TRUE,
                            ![zone_name].records = ZoneRecordsAfterCreate(@, t_record)]
                     /\ calls' = Append(calls, Call("create", next_id, data, TRUE))
                     /\ pc' = "done"
                ELSE /\ calls' = Append(calls, Call("create", 0, data, FALSE))
                     /\ pc' = Raised(<<>>, <<>>, <<>>, <<>>, <<>>)
                     /\ UNCHANGED <<dns_records, zones>>
    /\ HelperUnchanged

\* __update_record_by_id__(record_id, name, dns_type, content, ttl=, proxied=)
call_update_record_by_id ==
    /\ pc = "helper"
    /\ helper.fn = "__update_record_by_id__"
    /\ LET record_id == helper.record_id
           zone_name == get_zone_name(helper.name)
           data == UpdatePayload(helper.name, helper.type, helper.content,
                                 helper.ttl, helper.proxied)
       IN  IF ~UpdateCheckOK(dns_records, zones, record_id, zone_name,
                             helper.name, helper.type)
           THEN /\ pc' = CheckRaised("update")
                /\ UNCHANGED <<remote, dns_records, zones, calls>>
           ELSE \E out \in OutcomesFor(record_id \in DOMAIN remote) :
                  IF out = "refused"
                  THEN /\ calls' = Append(calls, Call("update", record_id, data, FALSE))
                       /\ pc' = Raised(<<>>, <<>>, <<>>, <<>>, <<>>)
                       /\ UNCHANGED <<remote, dns_records, zones>>
                  ELSE \E absent_ttl \in IF data.ttl = NoTtl
                                         THEN {remote[record_id].ttl, 1}
                                         ELSE {data.ttl} :
                         LET t_record == ProviderUpdated(remote[record_id], data, absent_ttl)
                             old_content == dns_records[record_id].content
                         IN  /\ remote' = [remote EXCEPT ![record_id] = t_record]
                             /\ IF out = "ok"
                                THEN /\ dns_records' = DnsRecordsAfterUpdate(dns_records, record_id, t_record)
                                     /\ zones' = [zones EXCEPT ![zone_name].records =
                                            ZoneRecordsAfterUpdate(@, helper.name, helper.type,
                                                old_content, helper.content, record_id)]
                                     /\ calls' = Append(calls, Call("update", record_id, data, TRUE))
                                     /\ pc' = "done"
                                ELSE /\ calls' = Append(calls, Call("update", record_id, data, FALSE))
                                     /\ pc' = Raised(<<>>, <<>>, <<>>, <<>>, <<>>)
                                     /\ UNCHANGED <<dns_records, zones>>
    /\ UNCHANGED next_id
    /\ HelperUnchanged

\* __delete_record_by_id__(zone_id, record_id)
call_delete_record_by_id ==
    /\ pc = "helper"
    /\ helper.fn = "__delete_record_by_id__"
    /\ LET record_id == helper.record_id
       IN  IF ~DeleteCheckOK(dns_records, zones, record_id)
           THEN /\ pc' = CheckRaised("delete")
                /\ UNCHANGED <<remote, dns_records, zones, calls>>
           ELSE LET record == dns_records[record_id]
                    data == [name |-> record.name, type |-> record.type,
                             content |-> record.content, ttl |-> NoTtl,
                             proxied |-> FALSE]
                IN  \E out \in OutcomesFor(record_id \in DOMAIN remote) :
                      /\ remote' = IF out = "refused" THEN remote
                                   ELSE Restrict(remote, DOMAIN remote \ {record_id})
                      /\ IF out = "ok"
                         THEN /\ dns_records' = DnsRecordsAfterDelete(dns_records, record_id)
                              /\ zones' = [zones EXCEPT ![record.zone_name].records =
                                     ZoneRecordsAfterDelete(@, KeyOf(record))]
                              /\ calls' = Append(calls, Call("delete", record_id, data, TRUE))
                              /\ pc' = "done"
                         ELSE /\ calls' = Append(calls, Call("delete", record_id, data, FALSE))
                              /\ pc' = Raised(<<>>, <<>>, <<>>, <<>>, <<>>)
                              /\ UNCHANGED <<dns_records, zones>>
    /\ UNCHANGED next_id
    /\ HelperUnchanged

NextHelper ==
    \/ call_create_one_record
    \/ call_update_record_by_id
    \/ call_delete_record_by_id

SpecHelper == InitHelper /\ [][NextHelper]_vars

(***************************************************************************)
(* One run of main (lines 1300-1548): the checks of the command line, the  *)
(* construction of the session (which lists the zones over HTTP) and the   *)
(* dispatch, step by step (SpecMain).  A flag is kept as "given or not";   *)
(* --zone and --domain are kept by what the zone list says of their value; *)
(* --ipv6, --raw-file and --raw-alias-file follow the branches of --ipv4,  *)
(* --raw and --raw-alias.                                                  *)
(***************************************************************************)
Actions == {"none", "list_zone", "list_record", "update_record", "add_record",
            "delete_record"}

\* the command lines followed
CommandLines ==
    [version : BOOLEAN, email : BOOLEAN, api_key : BOOLEAN, action : Actions,
     ipv4_addr : BOOLEAN, cname : BOOLEAN, cname_alias : BOOLEAN, raw : BOOLEAN,
     raw_alias : BOOLEAN, zone : {"none", "zone", "not_zone"}, alias : BOOLEAN,
     domain : {"none", "is_zone", "no_root_zone", "sub"},
     dns_type : {"none", "valid", "invalid"}, raw_fields : {4, 5}]

\* "Please use --alias with --zone" / "Please do not use --domain with
\* --zone" / "Please use --zone with --alias or just use --domain"
ZoneOrDomain(a) ==
    IF a.zone # "none" THEN ~a.alias \/ a.domain # "none"
    ELSE a.domain = "none"

\* lines 1333-1401: "ok", or why the process ends there; with --raw and no
\* --raw-alias, len(args.raw_alias) is len(None)
FlagChecks(a) ==
    IF a.ipv4_addr
    THEN IF \/ a.cname \/ a.cname_alias
            \/ a.raw \/ a.raw_alias
            \/ ZoneOrDomain(a)
         THEN "conflicting flags" ELSE "ok"
    ELSE IF a.cname \/ a.cname_alias
    THEN IF \/ a.raw \/ a.raw_alias
            \/ IF a.cname_alias
               THEN a.zone = "none" \/ ~a.alias \/ a.domain # "none"
               ELSE ZoneOrDomain(a)
         THEN "conflicting flags" ELSE "ok"
    ELSE IF a.raw \/ a.raw_alias
    THEN IF a.alias \/ a.domain # "none" \/ a.zone = "none"
         THEN "conflicting flags"
         ELSE IF a.raw
              THEN IF a.raw_alias THEN "conflicting flags" ELSE "TypeError"
              ELSE "ok"
    ELSE "ok"

\* is_zone, lines 576-585: the domain is one of the names of zones_list
is_zone(zl, d) == \E i \in DOMAIN zl : zl[i] = d

\* has_root_zone, lines 587-597: the domain ends with "." + zone for a zone
\* of zones_list
has_root_zone(zl, d) == \E i \in DOMAIN zl : EndsWithZone(d, zl[i])

\* the --domain value each keyword of CommandLines stands for
DomainValue ==
    [is_zone |-> example_com, no_root_zone |-> <<"home", "example", "net">>,
     sub |-> <<"home", "example", "com">>]

\* mutant: --domain is not checked against the zone list
TargetChecks_nodomain(a) ==
    IF a.zone = "not_zone" THEN "not zone"
    ELSE IF a.zone = "zone" /\ ~a.alias THEN "TypeError"
    ELSE IF a.domain = "none" /\ a.zone = "none" THEN "No valid domain provided!"
    ELSE "ok"

\* lines 1408-1446: the checks of --domain and --zone against the zone list;
\* split_content_list(args.alias) iterates over None without --alias
TargetChecks(a) ==
    IF a.domain # "none" /\ is_zone(zones_list, DomainValue[a.domain])
    THEN "domain is zone"
    ELSE IF a.domain # "none" /\ ~has_root_zone(zones_list, DomainValue[a.domain])
    THEN "no root zone"
    ELSE IF a.zone = "not_zone" THEN "not zone"
    ELSE IF a.zone = "zone" /\ ~a.alias THEN "TypeError"
    ELSE IF a.domain = "none" /\ a.zone = "none" THEN "No valid domain provided!"
    ELSE "ok"

\* lines 1474-1537: the raw lines and --dns-type
TreeChecks(a) ==
    IF (a.raw \/ a.raw_alias) /\ a.raw_fields # 5 THEN "invalid raw content"
    ELSE IF /\ a.dns_type = "invalid"
            /\ a.action \in {"list_record", "delete_record"}
         THEN "invalid dns type"
    ELSE "ok"

\* sys.exit(code), or the exit of the interpreter on an uncaught exception
Exit(p, code, reason) == [p EXCEPT !.pc = "exit", !.code = code, !.reason = reason]

\* args = parser.parse_args()
InitMain ==
    /\ remote = Pool
    /\ Constructed
    /\ RequestIdle
    /\ SplitIdle
    /\ HelperIdle
    /\ PagingIdle
    /\ ObjectsIdle
    /\ args \in CommandLines
    /\ proc = [NotStarted EXCEPT !.pc = "parsed"]

MainUnchanged ==
    /\ UNCHANGED args
    /\ UNCHANGED <<sessionvars, requestvars, splitvars, helpervars, pagingvars, objectvars>>

\* lines 1301-1401: --version, the credentials, the action and the flags
check_flags ==
    /\ proc.pc = "parsed"
    /\ proc' = IF args.version THEN Exit(proc, 0, "version")
               ELSE IF ~args.email THEN Exit(proc, 1, "No email!")
               ELSE IF ~args.api_key THEN Exit(proc, 1, "No API Key!")
               ELSE IF args.action = "none" THEN Exit(proc, 1, "No valid cmd provided!")
               ELSE IF FlagChecks(args) # "ok" THEN Exit(proc, 1, FlagChecks(args))
               ELSE [proc EXCEPT !.pc = "construct"]
    /\ MainUnchanged

\* line 1402: cf = CloudFlare(...); __init__ runs __init_zones__, which
\* requests the zone list and raises when the request fails
construct ==
    /\ proc.pc = "construct"
    /\ \E listed_ok \in BOOLEAN :
          proc' = IF listed_ok
                  THEN [proc EXCEPT !.pc = "targets", !.requests = @ + 1]
                  ELSE [Exit(proc, 1, "CloudFlareError") EXCEPT !.requests = @ + 1]
    /\ MainUnchanged

\* lines 1403-1446: list_zones, then the checks of --domain and --zone
check_targets ==
    /\ proc.pc = "targets"
    /\ proc' = IF args.action = "list_zone" THEN Exit(proc, 0, "list_zones")
               ELSE IF TargetChecks(args) # "ok" THEN Exit(proc, 1, TargetChecks(args))
               ELSE [proc EXCEPT !.pc = "tree"]
    /\ MainUnchanged

\* lines 1447-1537: the target tree is filled from the value flags
build_records_dict ==
    /\ proc.pc = "tree"
    /\ proc' = IF TreeChecks(args) # "ok" THEN Exit(proc, 1, TreeChecks(args))
               ELSE [proc EXCEPT !.pc = "dispatch"]
    /\ MainUnchanged

\* lines 1539-1548: the pass, which loads the zone first
dispatch ==
    /\ proc.pc = "dispatch"
    /\ \E pass_ok \in BOOLEAN :
          proc' = [Exit(proc, IF pass_ok THEN 0 ELSE 1,
                        IF pass_ok THEN "completed" ELSE "CloudFlareError")
                   EXCEPT !.requests = @ + 1]
    /\ MainUnchanged

NextMain ==
    \/ check_flags
    \/ construct
    \/ check_targets
    \/ build_records_dict
    \/ dispatch

SpecMain == InitMain /\ [][NextMain]_vars

(***************************************************************************)
(* The list loops of __init_zones__ (lines 248-273) and                    *)
(* __init_records_for_zone__ (lines 295-344) turn by turn, against a list  *)
(* endpoint that may report any count on a page and reports a stable       *)
(* total_count (SpecPages).                                                *)
(***************************************************************************)
\* the largest total_count of a listing
MaxTotal == 4
\* the page requests followed beyond MaxTotal (caps a loop that never ends)
MaxEmptyPages == 2

\* mutant: the count of the page is not added to fetched
LoopTurn_nocount(p, t_succ, len, count) ==
    LET q == [p EXCEPT !.requests = @ + 1]
    IN  IF ~t_succ THEN [q EXCEPT !.state = "error"]
        ELSE IF p.kind = "zones" /\ len = 0
             THEN [q EXCEPT !.result_len = 0, !.state = "error"]
        ELSE LET r == [q EXCEPT !.result_len = len, !.count = count,
                                !.zero_count = @ \/ count = 0]
             IN  IF r.fetched >= r.total_count
                 THEN [r EXCEPT !.state = "done"]
                 ELSE [r EXCEPT !.page = @ + 1]

\* one turn of "while True": the request of page p.page, answered with len
\* results and result_info.count = count, or failed (t_succ false); the zone
\* loop raises on an empty result (lines 258-261), both raise on a failed
\* request, and both leave the loop when fetched >= total_count
LoopTurn(p, t_succ, len, count) ==
    LET q == [p EXCEPT !.requests = @ + 1]
    IN  IF ~t_succ THEN [q EXCEPT !.state = "error"]
        ELSE IF p.kind = "zones" /\ len = 0
             THEN [q EXCEPT !.result_len = 0, !.state = "error"]
        ELSE LET r == [q EXCEPT !.fetched = @ + count, !.result_len = len,
                                !.count = count,
                                !.zero_count = @ \/ count = 0]
             IN  IF r.fetched >= r.total_count
                 THEN [r EXCEPT !.state = "done"]
                 ELSE [r EXCEPT !.page = @ + 1]

\* page = 1, fetched = 0, before the first turn of either loop
InitPages ==
    /\ remote = Pool
    /\ Constructed
    /\ RequestIdle
    /\ SplitIdle
    /\ HelperIdle
    /\ MainIdle
    /\ ObjectsIdle
    /\ paging \in {[NoPaging EXCEPT !.kind = k, !.total_count = t, !.state = "running"] :
                      k \in {"zones", "records"}, t \in 0..MaxTotal}

PagesUnchanged ==
    UNCHANGED <<sessionvars, requestvars, splitvars, helpervars, mainvars, objectvars>>

\* one turn of the loop of __init_zones__
init_zones_page ==
    /\ paging.kind = "zones"
    /\ paging.state = "running"
    /\ paging.requests < MaxTotal + MaxEmptyPages
    /\ \E t_succ \in BOOLEAN, len \in 0..per_page, count \in 0..per_page :
          paging' = LoopTurn(paging, t_succ, len, count)
    /\ PagesUnchanged

\* one turn of the loop of __init_records_for_zone__
init_records_page ==
    /\ paging.kind = "records"
    /\ paging.state = "running"
    /\ paging.requests < MaxTotal + MaxEmptyPages
    /\ \E t_succ \in BOOLEAN, len \in 0..per_page, count \in 0..per_page :
          paging' = LoopTurn(paging, t_succ, len, count)
    /\ PagesUnchanged

NextPages ==
    \/ init_zones_page
    \/ init_records_page

SpecPages == InitPages /\ [][NextPages]_vars

\* a loop that can take a turn takes it
SpecPagesFair == SpecPages /\ WF_vars(NextPages)

(***************************************************************************)
(* Several CloudFlare objects in one process.  zones, zones_list and       *)
(* dns_records are attributes of the class (lines 61, 75, 76): self.zones  *)
(* and self.dns_records of every object are those two dicts, which here    *)
(* are the variables zones and dns_records; sessions.zones_list is the     *)
(* list of the class, and only the sorted list of line 274 belongs to the  *)
(* object.                                                                 *)
(***************************************************************************)
\* CloudFlare objects built in the process
MaxSessions == 2

\* list requests sent by the objects together
MaxLoads == 2

\* the zones of the account of one object, as the provider lists them
Accounts == {SeqOf(KnownZoneOrder, S) : S \in (SUBSET KnownZones) \ {{}}}

\* lines 262-263: self.zones[zone["name"]] = {"id": zone["id"]} for every
\* zone of the listing, on the dict of the class
ZonesAfterInit(zs, listing) ==
    [z \in DOMAIN zs \cup Range(listing) |->
        IF z \in Range(listing)
        THEN [id |-> "zone-id", has_records |-> FALSE, records |-> EmptyMap]
        ELSE zs[z]]

\* the process before any CloudFlare object is built: the dicts and the
\* list of the class are empty
InitSessions ==
    /\ remote \in {Restrict(Pool, S) :
                      S \in {T \in SUBSET DOMAIN Pool : CnameAlone(Restrict(Pool, T))}}
    /\ next_id = Cardinality(DOMAIN Pool) + 1
    /\ dns_records = EmptyMap
    /\ zones = EmptyMap
    /\ pc = "idle"
    /\ op = "none"
    /\ run = 0
    /\ records_dict = EmptyMap
    /\ todo_zones = <<>>
    /\ todo_groups = <<>>
    /\ group = <<>>
    /\ t_current_records_dict = EmptyMap
    /\ t_exist_contents = <<>>
    /\ t_extra_records = <<>>
    /\ t_non_exist_contents = <<>>
    /\ calls = <<>>
    /\ list_calls = <<>>
    /\ record_id_list_for_del = <<>>
    /\ todo_del = <<>>
    /\ slept = <<>>
    /\ ObjectsIdle
    /\ RequestIdle
    /\ SplitIdle
    /\ HelperIdle
    /\ MainIdle
    /\ PagingIdle

\* what the objects leave alone
SessionsUnchanged ==
    /\ UNCHANGED <<next_id, pc, passvars, todo_zones, todo_groups, group,
                   t_current_records_dict, t_exist_contents, t_extra_records,
                   t_non_exist_contents, calls, record_id_list_for_del, todo_del,
                   slept>>
    /\ UNCHANGED <<requestvars, splitvars, helpervars, mainvars, pagingvars>>

\* CloudFlare(email, api_key) for an account: __init__ runs __init_zones__
\* (lines 108, 231-274), whose zone-list request succeeds
new_session ==
    /\ Len(sessions.objects) < MaxSessions
    /\ \E account \in Accounts :
          LET listed_names == sessions.zones_list \o account
          IN  /\ zones' = ZonesAfterInit(zones, account)
              /\ sessions' = [zones_list |-> listed_names,
                              objects |-> Append(sessions.objects,
                                             [account |-> account,
                                              zones_list |-> sort_zones(listed_names)]),
                              actor |-> Len(sessions.objects) + 1,
                              fresh |-> TRUE]
    /\ UNCHANGED <<remote, dns_records, list_calls>>
    /\ SessionsUnchanged

\* object k calls __init_records_for_zone__ (276-345) for a zone of its
\* account: pages 1..n are fetched, or the load raises at a page that fails
session_load ==
    /\ \E k \in DOMAIN sessions.objects, z \in DOMAIN zones :
          /\ z \in Range(sessions.objects[k].account)
          /\ LET listing == Listing(remote, z)
                 n == ListLoop(listing, 1, 0)
             IN  \E j \in 0..n :
                   LET fetched == FirstPages(listing, j)
                   IN  /\ dns_records' = DnsRecordsAfterFetch(dns_records, fetched)
                       /\ IF j = n
                          THEN /\ zones' = [zones EXCEPT
                                      ![z].has_records = TRUE,
                                      ![z].records = ZoneRecordsAfterFetch(@, LocalRecords(fetched))]
                               /\ list_calls' = list_calls \o PageRequests(z, n)
                          ELSE /\ zones' = [zones EXCEPT ![z].has_records = TRUE]
                               /\ list_calls' = list_calls \o PageRequests(z, j + 1)
          /\ sessions' = [sessions EXCEPT !.actor = k, !.fresh = FALSE]
    /\ Len(list_calls) < MaxLoads
    /\ UNCHANGED remote
    /\ SessionsUnchanged

\* object k calls __delete_record_by_id__ (510-557) for a cached id; the
\* double check raises before any request when the views disagree
session_delete ==
    /\ \E k \in DOMAIN sessions.objects, record_id \in DOMAIN dns_records :
          /\ dns_records[record_id].zone_name \in Range(sessions.objects[k].account)
          /\ DeleteCheckOK(dns_records, zones, record_id)
          /\ record_id \in DOMAIN remote
          /\ remote' = Restrict(remote, DOMAIN remote \ {record_id})
          /\ dns_records' = DnsRecordsAfterDelete(dns_records, record_id)
          /\ zones' = [zones EXCEPT ![dns_records[record_id].zone_name].records =
                           ZoneRecordsAfterDelete(@, KeyOf(dns_records[record_id]))]
          /\ sessions' = [sessions EXCEPT !.actor = k, !.fresh = FALSE]
    /\ UNCHANGED list_calls
    /\ SessionsUnchanged

NextSessions ==
    \/ new_session
    \/ session_load
    \/ session_delete

SpecSessions == InitSessions /\ [][NextSessions]_vars

TypeOK ==
    /\ pc \in {"idle", "zone", "group", "update", "delete", "create", "done", "error",
              "helper"}
    /\ DOMAIN dns_records \subseteq 1..(next_id - 1)
    /\ DOMAIN remote \subseteq 1..(next_id - 1)

(***************************************************************************)
(* Properties.                                                             *)
(***************************************************************************)
\* the contents of the records of a map id -> record that belong to group g
ContentsIn(recs, g) ==
    {recs[i].content :
        i \in {j \in DOMAIN recs : /\ recs[j].zone_name = g[1]
                                   /\ recs[j].name = FullName(g[2], g[1])
                                   /\ recs[j].type = g[3]}}

\* the cached content -> id map of group g
CachedIn(g) == get_records_for_domain_and_type(zones, g[1], g[2], g[3])

\* the group a logged call belongs to
GroupOfCall(e) ==
    <<get_zone_name(e.name), RemoveSuffix(e.name, get_zone_name(e.name)), e.type>>

CallsOf(g) == SelectSeq(calls, LAMBDA e : GroupOfCall(e) = g)

AllOk(log) == \A i \in DOMAIN log : log[i].ok

InUpdatePass == op = "update_records_new" /\ pc \notin {"idle", "zone"}

\* C1: when a pass of update_records_new has finished without raising, then
\* for every group of the target the contents held for the group by the
\* nested view, by the per-ID map and by the provider are exactly the
\* contents the target lists, and every listed content is held by one record
\* that the cache and the provider agree on.
C1_Convergence ==
    (pc = "done" /\ op = "update_records_new") =>
        \A g \in DOMAIN records_dict :
            /\ DOMAIN CachedIn(g) = DOMAIN records_dict[g]
            /\ ContentsIn(dns_records, g) = DOMAIN records_dict[g]
            /\ ContentsIn(remote, g) = DOMAIN records_dict[g]
            /\ \A c \in DOMAIN records_dict[g] :
                  /\ CachedIn(g)[c] \in DOMAIN remote
                  /\ remote[CachedIn(g)[c]].content = c
                  /\ dns_records[CachedIn(g)[c]] = remote[CachedIn(g)[c]]

\* a first pass that finished after updating a record and deleting another
C1_Witness ==
    /\ pc = "done" /\ op = "update_records_new" /\ run = 1
    /\ \E i, j \in DOMAIN calls : calls[i].kind = "update" /\ calls[j].kind = "delete"

\* C2: termination of a pass whose remote calls all succeed: the create
\* phase of a group ends, so while the pass is still in the create phase of
\* a group and every call so far succeeded, fewer create calls have been
\* made for the group than it had missing contents.
C2_Termination ==
    (op = "update_records_new" /\ pc = "create" /\ AllOk(calls)) =>
        Len(Creates(CallsOf(group))) <
            Cardinality(DOMAIN records_dict[group] \ DOMAIN t_current_records_dict)

\* C3: one create call per missing content: no two create calls of a pass
\* of update_records_new carry the same (name, type, content), and the id
\* of every successful create is in both cache views.
C3_OneCreate ==
    op = "update_records_new" =>
        /\ \A i, j \in DOMAIN calls :
              (/\ i # j
               /\ calls[i].kind = "create" /\ calls[j].kind = "create"
               /\ calls[i].name = calls[j].name /\ calls[i].type = calls[j].type)
                  => calls[i].content # calls[j].content
        /\ \A i \in DOMAIN calls :
              (calls[i].kind = "create" /\ calls[i].ok) =>
                  /\ calls[i].id \in DOMAIN dns_records
                  /\ <<calls[i].name, calls[i].type, calls[i].content>>
                        \in DOMAIN zones[get_zone_name(calls[i].name)].records

\* C4: idempotence: the second of two runs of update_records_new with the
\* same target makes no create, update or delete call.
C4_Idempotent ==
    (op = "update_records_new" /\ run >= 2) => calls = <<>>

\* C5: CNAME exclusivity: no create, update or delete call is made for a
\* target group of type CNAME that lists two or more contents.
C5_CnameRejected ==
    \A i \in DOMAIN calls :
        ~ (/\ calls[i].type = "CNAME"
           /\ GroupOfCall(calls[i]) \in DOMAIN records_dict
           /\ Cardinality(DOMAIN records_dict[GroupOfCall(calls[i])]) >= 2)

C7_Updated(i) ==
    LET e == calls[i]
        g == GroupOfCall(e)
        attr == records_dict[g][e.content]
    IN  /\ \A j \in DOMAIN calls :
              (j # i /\ calls[j].kind = "update") => calls[j].id # e.id
        /\ e.id \in DOMAIN dns_records
        /\ dns_records[e.id].id = e.id
        /\ dns_records[e.id].content = e.content
        /\ dns_records[e.id].ttl = remote[e.id].ttl
        /\ (attr[1] \notin {NoTtl, 1} /\ ~attr[2]) => dns_records[e.id].ttl = attr[1]
        /\ CachedIn(g)[e.content] = e.id

Rank(kind) == CASE kind = "update" -> 1 [] kind = "delete" -> 2 [] kind = "create" -> 3

\* C8: order inside a group: in the calls of one (zone, prefix, type) group
\* of update_records_new no delete precedes an update and no create
\* precedes an update or a delete.
C8_Order ==
    op = "update_records_new" =>
        \A i, j \in DOMAIN calls :
            (i < j /\ GroupOfCall(calls[i]) = GroupOfCall(calls[j]))
                => Rank(calls[i].kind) <= Rank(calls[j].kind)

\* a group that got an update, then a delete, then a create
C8_Witness ==
    /\ op = "update_records_new"
    /\ \E i, j, k \in DOMAIN calls :
          /\ i < j /\ j < k
          /\ GroupOfCall(calls[i]) = GroupOfCall(calls[k])
          /\ GroupOfCall(calls[j]) = GroupOfCall(calls[k])
          /\ calls[i].kind = "update" /\ calls[j].kind = "delete"
          /\ calls[k].kind = "create"

\* the effect of a successful call e is in place on the provider and in the
\* cache
Applied(e) ==
    LET recs == zones[get_zone_name(e.name)].records
        key == <<e.name, e.type, e.content>>
    IN  CASE e.kind = "create" ->
                /\ e.id \in DOMAIN remote /\ KeyOf(remote[e.id]) = key
                /\ e.id \in DOMAIN dns_records /\ KeyOf(dns_records[e.id]) = key
                /\ key \in DOMAIN recs
          [] e.kind = "update" ->
                /\ e.id \in DOMAIN remote /\ KeyOf(remote[e.id]) = key
                /\ remote[e.id].proxied = e.proxied
                /\ e.ttl # NoTtl => remote[e.id].ttl = e.ttl
                /\ e.id \in DOMAIN dns_records /\ dns_records[e.id] = remote[e.id]
                /\ key \in DOMAIN recs /\ recs[key] = e.id
          [] e.kind = "delete" ->
                /\ e.id \notin DOMAIN remote
                /\ e.id \notin DOMAIN dns_records
                /\ key \notin DOMAIN recs

\* C9: fail fast without rollback: a failed call is the last call of the
\* pass and ends it with an error; no call follows it, the failing step
\* leaves both cache views as they were, and the effect of every call that
\* succeeded before it stays in place on the provider and in the cache.
C9_FailFast ==
    /\ [](/\ \A i \in DOMAIN calls :
                ~calls[i].ok => (i = Len(calls) /\ pc = "error")
          /\ \A i \in DOMAIN calls : calls[i].ok => Applied(calls[i]))
    /\ [][/\ pc = "error" => UNCHANGED vars
          /\ (Len(calls') = Len(calls) + 1 /\ ~calls'[Len(calls')].ok)
                => UNCHANGED <<dns_records, zones>>]_vars

\* a call failed after a call of an earlier group had succeeded
C9_Witness ==
    /\ pc = "error" /\ Len(calls) >= 2
    /\ ~calls[Len(calls)].ok
    /\ calls[1].ok
    /\ GroupOfCall(calls[1]) # GroupOfCall(calls[Len(calls)])

\* C10: the two cache views agree: every entry of the nested view names an
\* id of the per-ID map whose record has that name, type and content, and
\* every id of the per-ID map that belongs to a loaded zone is the value of
\* exactly one entry of the nested view.
C10_ViewsAgree ==
    \A z \in Zones :
        /\ \A k \in DOMAIN zones[z].records :
              /\ zones[z].records[k] \in DOMAIN dns_records
              /\ KeyOf(dns_records[zones[z].records[k]]) = k
        /\ zones[z].has_records =>
              \A id \in DOMAIN dns_records :
                  dns_records[id].zone_name = z =>
                      Cardinality({k \in DOMAIN zones[z].records :
                                      zones[z].records[k] = id}) = 1

\* a load of zone z has returned without raising
Loaded(z) == zones[z].has_records /\ (run > 1 \/ z \notin Range(todo_zones))

\* C11: the cache mirrors the provider: for every loaded zone the ids of the
\* per-ID map and the ids named by the nested view are the ids the provider
\* holds for the zone, and every cached record has the content the provider
\* holds for its id, in every state between two engine actions, failed
\* calls included.
C11_CacheMirrors ==
    \A z \in Zones :
        Loaded(z) =>
            LET held == {i \in DOMAIN remote : remote[i].zone_name = z}
                cached == {i \in DOMAIN dns_records : dns_records[i].zone_name = z}
            IN  /\ cached = held
                /\ \A i \in cached \cap held : dns_records[i].content = remote[i].content
                /\ {zones[z].records[k] : k \in DOMAIN zones[z].records} = held

\* the record id the next turn of the update loop / of a delete loop is for
UpdateArg == t_current_records_dict[Head(t_exist_contents)]

DeleteArg ==
    IF op = "delete_records_new" THEN Head(todo_del)
    ELSE t_current_records_dict[Head(t_extra_records)]

\* the double check of the next turn fails
CheckFails ==
    \/ /\ pc = "update"
       /\ ~UpdateCheckOK(dns_records, zones, UpdateArg, group[1],
                         FullName(group[2], group[1]), group[3])
    \/ /\ pc = "delete"
       /\ ~DeleteCheckOK(dns_records, zones, DeleteArg)

\* C12: consistency check before update and delete: a turn of the update or
\* delete loop whose record id is not in the per-ID map, or whose record the
\* nested view does not map to that id, raises an error, makes no remote
\* call and leaves the provider and both cache views unchanged; and every
\* update or delete call that is made is for an id of the per-ID map that
\* the nested view maps the record's (name, type, content) to.
C12_CheckFirst ==
    [][/\ CheckFails =>
            /\ pc' = "error"
            /\ calls' = calls
            /\ UNCHANGED <<remote, dns_records, zones>>
       /\ (/\ Len(calls') = Len(calls) + 1
           /\ calls'[Len(calls')].kind \in {"update", "delete"})
             => LET id == calls'[Len(calls')].id
                IN  /\ id \in DOMAIN dns_records
                    /\ KeyOf(dns_records[id])
                          \in DOMAIN zones[dns_records[id].zone_name].records
                    /\ zones[dns_records[id].zone_name].records[KeyOf(dns_records[id])]
                          = id]_vars

\* delete_records_new raised on an id that is no longer in the per-ID map,
\* after its earlier delete calls had all succeeded
C12_Witness ==
    /\ pc = "error" /\ op = "delete_records_new"
    /\ todo_del # <<>>
    /\ Head(todo_del) \notin DOMAIN dns_records
    /\ calls # <<>> /\ AllOk(calls)

\* C13: retry budget of __request__: no call makes more than 3 attempts; an
\* attempt that gets a response or any other exception is the last one and
\* the call has returned; a call whose attempts all ended in a
\* connection-level failure has returned exactly when it made 3 attempts,
\* and it returned failure with no payload.
C13_RetryBudget ==
    /\ Len(attempts) <= 3
    /\ \A i \in DOMAIN attempts :
          attempts[i] \notin {"ConnectTimeout", "ConnectionError", "Timeout", "ReadTimeout"}
              => (i = Len(attempts) /\ ret.returned)
    /\ (\A i \in DOMAIN attempts :
            attempts[i] \in {"ConnectTimeout", "ConnectionError", "Timeout", "ReadTimeout"})
          => /\ ret.returned <=> Len(attempts) = 3
             /\ ret.returned => (~ret.succ /\ ret.value = "None")

\* a call that returned failure after three connection-level failures
C13_Witness ==
    /\ ret.returned /\ ~ret.succ
    /\ attempts = <<"ConnectTimeout", "ReadTimeout", "ConnectionError">>

\* C14: application failures are not retried: an attempt that gets a status
\* other than 200, or a payload without a true success flag, is the last
\* attempt of the call, which has returned failure with the error or the
\* payload, however many attempts were left.
C14_NoRetryOnAppFailure ==
    \A i \in DOMAIN attempts :
        attempts[i] \in {"StatusNot200", "NoSuccess"} =>
            /\ i = Len(attempts)
            /\ ret.returned /\ ~ret.succ
            /\ ret.value = IF attempts[i] = "StatusNot200" THEN "HTTPError" ELSE "payload"

\* a call that returned after one attempt, with the whole budget left
C14_Witness ==
    /\ ret.returned /\ ~ret.succ
    /\ attempts = <<"NoSuccess">>
    /\ t_try = 0

Ceil(a, b) == (a + b - 1) \div b

\* the zone list loop of __init_zones__: a listing of T zones takes
\* ceil(T / per_page) page requests and every zone ends up in zones_list
ZoneListComplete ==
    \A zl \in ZoneListings :
        /\ InitZonesPages(zl) = Ceil(Len(zl), per_page)
        /\ InitZonesList(zl) = zl
        /\ Range(sort_zones(InitZonesList(zl))) = Range(zl)
        /\ Len(sort_zones(InitZonesList(zl))) = Len(zl)

\* a load of the next zone returns in this step
LoadReturns == pc = "zone" /\ todo_zones' = Tail(todo_zones)

\* after the load of zone z the cache holds each record of the listing once
HoldsListing(z, listing) ==
    /\ \A n \in DOMAIN listing :
          /\ listing[n].id \in DOMAIN dns_records'
          /\ dns_records'[listing[n].id] = listing[n]
          /\ KeyOf(listing[n]) \in DOMAIN zones'[z].records
          /\ zones'[z].records[KeyOf(listing[n])] = listing[n].id
    /\ Cardinality({i \in DOMAIN dns_records' : dns_records'[i].zone_name = z})
          = Len(listing)
    /\ Cardinality(DOMAIN zones'[z].records) = Len(listing)

\* C15 as stated: a load that returns has requested the pages
\* 1..ceil(T / per_page) of the zone, once each and in that order, where T
\* is the number of records the provider lists, and the cache then holds
\* every listed record exactly once; the zone list loop does the same.
C15_Pagination ==
    /\ []ZoneListComplete
    /\ [][LoadReturns =>
            LET z == Head(todo_zones)
                listing == Listing(remote, z)
            IN  /\ list_calls' = list_calls
                        \o PageRequests(z, Ceil(Len(listing), per_page))
                /\ HoldsListing(z, listing)]_vars

\* C15 amended: as C15, with page 1 requested also when the provider lists
\* no record (T = 0): the pages are 1..max(1, ceil(T / per_page)).
C15_PaginationFromPageOne ==
    /\ []ZoneListComplete
    /\ [][LoadReturns =>
            LET z == Head(todo_zones)
                listing == Listing(remote, z)
                pages == IF Len(listing) = 0 THEN 1
                         ELSE Ceil(Len(listing), per_page)
            IN  /\ list_calls' = list_calls \o PageRequests(z, pages)
                /\ HoldsListing(z, listing)]_vars

\* a first load that took more than one page request and cached more than
\* one page of records
C15_Witness ==
    /\ run = 1 /\ pc = "group" /\ calls = <<>>
    /\ Len(list_calls) >= 2
    /\ Cardinality(DOMAIN dns_records) > per_page
    /\ Cardinality(DOMAIN zones[example_com].records) = Cardinality(DOMAIN dns_records)

\* C16: the record listing of a zone is fetched once per process: no page
\* of a zone is requested twice.
C16_LoadOnce ==
    \A i, j \in DOMAIN list_calls :
        i # j => list_calls[i] # list_calls[j]

\* the listed zones that are a suffix of domain d, d itself included
SuffixZones(zl, d) == {z \in Range(zl) : z = d \/ EndsWithZone(d, z)}

\* the zone of S with the most labels
Longest(S) == CHOOSE z \in S : \A y \in S : Len(y) <= Len(z)

\* C17: longest-suffix resolution: when a listed zone is a suffix of the
\* domain, split_domain returns the suffix zone with the most labels and the
\* labels of the domain in front of it, whatever the order of the listing.
C17_LongestSuffix ==
    (split.called /\ SuffixZones(listed, domain) # {}) =>
        LET zone == Longest(SuffixZones(listed, domain))
        IN  split.result = <<SubSeq(domain, 1, Len(domain) - Len(zone)), zone>>

\* C18: resolution failure: when no listed zone is a suffix of the domain,
\* split_domain and the zone lookups raise ZoneNotFound.
C18_ZoneNotFound ==
    (split.called /\ SuffixZones(listed, domain) = {}) =>
        /\ split.raised = "ZoneNotFound"
        /\ split.lookup.kind = "ZoneNotFound"

\* C19: domain equal to a zone: split_domain of a listed zone name returns
\* the empty prefix and that zone.
C19_ZoneItself ==
    (split.called /\ domain \in Range(listed)) =>
        split.result = <<<<>>, domain>>

\* ttl values of the session (self.ttl) and ttl keywords of a call
SessionTtls == {60, 300, 3600}

ExplicitTtls == TargetTtls \cup {NoTtl, 60}

\* the payloads of proxied records, for every ttl keyword and session ttl
ProxiedPayloads ==
    {CreatePayloadWith(d, <<"home", "example", "com">>, ty, "1.2.3.4", t, TRUE) :
        d \in SessionTtls, ty \in Types, t \in ExplicitTtls}
    \cup
    {UpdatePayload(<<"home", "example", "com">>, ty, "1.2.3.4", t, TRUE) :
        ty \in Types, t \in ExplicitTtls}

\* C20: proxied implies automatic ttl: every create and update call made
\* for a target entry with proxied = true carries ttl = 1 and proxied =
\* true, and so does every payload built with proxied = true from any ttl
\* keyword (none included) on a session with any default ttl.
C20_ProxiedTtl ==
    /\ \A i \in DOMAIN calls :
          (/\ calls[i].kind \in {"create", "update"}
           /\ records_dict[GroupOfCall(calls[i])][calls[i].content][2])
              => (calls[i].ttl = 1 /\ calls[i].proxied)
    /\ \A data \in ProxiedPayloads : data.ttl = 1 /\ data.proxied

\* an update call and a create call were made for proxied entries with an
\* explicit ttl of 600
C20_Witness ==
    \E i, j \in DOMAIN calls :
        /\ calls[i].kind = "update" /\ calls[j].kind = "create"
        /\ calls[i].ok /\ calls[j].ok
        /\ records_dict[GroupOfCall(calls[i])][calls[i].content] = <<600, TRUE>>
        /\ records_dict[GroupOfCall(calls[j])][calls[j].content] = <<600, TRUE>>
        /\ calls[i].ttl = 1 /\ calls[j].ttl = 1

\* C21: payload ttl rule with proxied false: every create and update call
\* made for a target entry with proxied = false carries the ttl of the entry
\* when that ttl is given and is not 1, and the session default ttl
\* otherwise; the payload always has a ttl field.
C21_TtlRule ==
    \A i \in DOMAIN calls :
        LET e == calls[i]
            attr == records_dict[GroupOfCall(e)][e.content]
        IN  (e.kind \in {"create", "update"} /\ ~attr[2]) =>
                /\ e.ttl # NoTtl
                /\ e.ttl = IF attr[1] # NoTtl /\ attr[1] # 1 THEN attr[1]
                           ELSE self_ttl

\* C22: ttl domain: the ttl of every create and update payload sent is 1 or
\* an integer >= 60, whatever ttl keyword the call was given, and so is the
\* default ttl of the session, whatever ttl was given at construction.
C22_TtlDomain ==
    /\ helper.self_ttl = 1 \/ helper.self_ttl >= 60
    /\ \A i \in DOMAIN calls :
          (calls[i].kind \in {"create", "update"} /\ calls[i].ttl # NoTtl)
              => (calls[i].ttl = 1 \/ calls[i].ttl >= 60)

\* the exits that are validation failures of the command line
ValidationFailures ==
    {"No email!", "No API Key!", "No valid cmd provided!", "conflicting flags",
     "domain is zone", "no root zone", "not zone", "No valid domain provided!",
     "invalid raw content", "invalid dns type"}

\* C23: validation precedes the first remote call: when the process has
\* ended on a validation failure of the command line, its exit code is 1 and
\* no HTTP request, the zone listing included, has been sent.
C23_ValidateFirst ==
    (proc.pc = "exit" /\ proc.reason \in ValidationFailures) =>
        (proc.code = 1 /\ proc.requests = 0)

\* C24: CNAME singleton invariant: in every state of a pass of
\* create_records_new or update_records_new that started from a cache and a
\* provider where every CNAME record is alone on its name, the per-ID map and
\* the provider hold at most one CNAME record per name and no name has a
\* CNAME record together with an A record.
C24_CnameSingleton ==
    op \in {"create_records_new", "update_records_new"} =>
        (CnameAlone(dns_records) /\ CnameAlone(remote))

\* the entries of the nested view of the zone under one name and type
EntriesOf(zs, name, type) ==
    {k \in DOMAIN zs[example_com].records : k[1] = name /\ k[2] = type}

Succeeded(kind) ==
    /\ Len(calls') = Len(calls) + 1
    /\ calls'[Len(calls')].kind = kind
    /\ calls'[Len(calls')].ok

\* C26: delete removes from both views: a successful call of
\* __delete_record_by_id__ takes the id out of the per-ID map and its
\* content key out of the nested view, and leaves every other entry of both
\* views as it was.
C26_DeleteBothViews ==
    [][Succeeded("delete")
       => LET e == calls'[Len(calls')]
              key == <<e.name, e.type, e.content>>
              z == get_zone_name(e.name)
          IN  /\ e.id \in DOMAIN dns_records
              /\ DOMAIN dns_records' = DOMAIN dns_records \ {e.id}
              /\ \A i \in DOMAIN dns_records' : dns_records'[i] = dns_records[i]
              /\ key \in DOMAIN zones[z].records
              /\ DOMAIN zones'[z].records = DOMAIN zones[z].records \ {key}
              /\ \A k \in DOMAIN zones'[z].records :
                    zones'[z].records[k] = zones[z].records[k]
              /\ zones'[z].has_records = zones[z].has_records
              /\ \A y \in Zones \ {z} : zones'[y] = zones[y]]_vars

\* a delete call succeeded, its record is in neither view, and another
\* record is still cached in both
C26_Witness ==
    /\ calls # <<>>
    /\ LET e == calls[Len(calls)]
       IN  /\ e.kind = "delete" /\ e.ok
           /\ e.id \notin DOMAIN dns_records
           /\ <<e.name, e.type, e.content>> \notin DOMAIN zones[example_com].records
    /\ \E k \in DOMAIN zones[example_com].records :
          /\ zones[example_com].records[k] \in DOMAIN dns_records
          /\ KeyOf(dns_records[zones[example_com].records[k]]) = k

\* the step is a create, update or delete call that the caller saw fail
Failed ==
    /\ Len(calls') = Len(calls) + 1
    /\ ~calls'[Len(calls')].ok

\* C27: state unchanged on remote failure: when the remote call of
\* __create_one_record__, __update_record_by_id__ or __delete_record_by_id__
\* fails, the helper raises CloudFlareError and both cache views are exactly
\* as they were before the call.
C27_FailureKeepsCache ==
    [][Failed => (pc' = "error" /\ UNCHANGED <<dns_records, zones>>)]_vars

\* an update call has failed after an earlier call of the pass, on a session
\* that caches a record
C27_Witness ==
    /\ pc = "error"
    /\ calls # <<>>
    /\ ~calls[Len(calls)].ok
    /\ calls[Len(calls)].kind = "update"
    /\ Len(calls) >= 2
    /\ dns_records # EmptyMap

\* C28: delete by content: in a pass of delete_records_new whose target
\* lists contents for a name and type, every delete call is for a cached
\* record of a listed name and type whose content is listed, and when the
\* pass is over the cached records with a listed content are gone.
C28_DeleteByContent ==
    op = "delete_records_new" =>
        /\ \A i \in DOMAIN calls :
              /\ GroupOfCall(calls[i]) \in DOMAIN records_dict
              /\ calls[i].content \in DOMAIN records_dict[GroupOfCall(calls[i])]
        /\ pc = "done" =>
              \A g \in DOMAIN records_dict :
                  DOMAIN CachedIn(g) \cap DOMAIN records_dict[g] = {}

\* C29: no repeated delete: a pass of delete_records_new whose zone load and
\* delete calls all succeed does not raise (no record id is handed to
\* __delete_record_by_id__ a second time), and when it is over no cached
\* record of a listed name and type is left.
C29_NoRepeatedDelete ==
    (op = "delete_records_new" /\ todo_zones = <<>> /\ AllOk(calls)) =>
        /\ pc # "error"
        /\ pc = "done" => \A g \in DOMAIN records_dict : DOMAIN CachedIn(g) = {}

\* C30: add is idempotent: a pass of create_records_new makes create calls
\* only, each for a listed content that the cache does not hold for the
\* group, and no two for the same name, type and content; when the pass is
\* over every listed content is cached, and a second run with the same
\* target makes no call at all.
C30_AddIdempotent ==
    /\ [](op = "create_records_new" =>
            /\ \A i \in DOMAIN calls : calls[i].kind = "create"
            /\ \A i, j \in DOMAIN calls :
                  (/\ i # j
                   /\ calls[i].name = calls[j].name /\ calls[i].type = calls[j].type)
                      => calls[i].content # calls[j].content
            /\ pc = "done" =>
                  \A g \in DOMAIN records_dict :
                      DOMAIN records_dict[g] \subseteq DOMAIN CachedIn(g)
            /\ run >= 2 => calls = <<>>)
    /\ [][(op = "create_records_new" /\ Len(calls') = Len(calls) + 1)
          => LET e == calls'[Len(calls')]
                 g == GroupOfCall(e)
             IN  /\ g \in DOMAIN records_dict
                 /\ e.content \in DOMAIN records_dict[g]
                 /\ e.content \notin DOMAIN CachedIn(g)]_vars

\* the second run of create_records_new is over without a call, for a group
\* with one content the zone held before and one the first run created
C30_Witness ==
    /\ op = "create_records_new" /\ run = 2 /\ pc = "done" /\ calls = <<>>
    /\ \E g \in DOMAIN records_dict :
          \E c1, c2 \in DOMAIN records_dict[g] :
              /\ c1 \in DOMAIN CachedIn(g) /\ CachedIn(g)[c1] > Cardinality(DOMAIN Pool)
              /\ c2 \in DOMAIN CachedIn(g) /\ CachedIn(g)[c2] <= Cardinality(DOMAIN Pool)

\* the (zone, prefix, type) of a record is not a group of the target tree
OutsideTarget(zone, name, type, tree) ==
    <<zone, RemoveSuffix(name, zone), type>> \notin DOMAIN tree

C32_ListLoopsEnd ==
    /\ [](~paging.zero_count =>
            paging.requests <= IF paging.total_count = 0 THEN 1 ELSE paging.total_count)
    /\ <>(paging.zero_count \/ paging.state # "running")
    /\ [][(/\ paging.kind = "zones"
           /\ paging'.requests = paging.requests + 1
           /\ paging'.result_len = 0)
             => paging'.state = "error"]_vars
    /\ [][(/\ paging.kind = "records"
           /\ paging'.requests = paging.requests + 1
           /\ paging'.state # "error"
           /\ paging'.count = 0
           /\ paging'.fetched < paging.total_count)
             => (/\ paging'.state = "running"
                 /\ paging'.page = paging.page + 1)]_vars

\* the record loop has sent more page requests than total_count and is
\* still running, after pages that reported count 0
C32_Witness ==
    /\ paging.kind = "records"
    /\ paging.state = "running"
    /\ paging.zero_count
    /\ paging.fetched < paging.total_count
    /\ paging.requests > paging.total_count

\* C33: lazy per-zone loading: every record-list request of a pass is for a
\* zone that is a key of the target tree, every create, update and delete
\* call is for a zone whose list requests of this run were sent before it,
\* and a zone outside the target is never listed and stays unloaded.
C33_LazyLoad ==
    /\ \A i \in DOMAIN list_calls : list_calls[i][1] \in ZonesOf(records_dict)
    /\ \A i \in DOMAIN calls :
          /\ get_zone_name(calls[i].name) \notin Range(todo_zones)
          /\ \E j \in DOMAIN list_calls : list_calls[j][1] = get_zone_name(calls[i].name)
    /\ \A z \in KnownZones \ ZonesOf(records_dict) :
          /\ ~zones[z].has_records
          /\ zones[z].records = EmptyMap

\* a pass on example.com is over after a successful call; example.com was
\* listed, example.org is known, was not listed and is not loaded
C33_Witness ==
    /\ pc = "done"
    /\ calls # <<>> /\ calls[1].ok
    /\ list_calls # <<>> /\ list_calls[1][1] = example_com
    /\ zones[example_com].has_records
    /\ example_org \in DOMAIN zones
    /\ ~zones[example_org].has_records

\* C34: in every pass a delay step lies between any two consecutive create,
\* update and delete calls: the loop turn of every call that is followed by
\* another call of the pass went through its sleep
C34_DelayBetweenCalls ==
    \A i \in 1..(Len(calls) - 1) : slept[i]

\* C35: payload proxied rule: every create and update payload carries
\* proxied = true when the proxied keyword of the call is true, and the
\* session default proxied flag when the keyword is false or not given
C35_ProxiedRule ==
    \A i \in DOMAIN calls :
        calls[i].kind \in {"create", "update"}
            => calls[i].proxied = (IF helper.proxied THEN TRUE ELSE self_proxied)

\* an update without the proxied keyword was sent for a record the provider
\* holds as proxied: the payload carries the session default, not the flag
\* of the record
C35_Witness ==
    /\ helper.fn = "__update_record_by_id__"
    /\ ~helper.proxied
    /\ \E i \in DOMAIN calls :
          /\ calls[i].kind = "update"
          /\ calls[i].ok
          /\ calls[i].id = 3
          /\ calls[i].proxied = self_proxied
    /\ Pool[3].proxied # self_proxied

\* what object k finds in self.zones, self.zones_list and self.dns_records
SessionView(k) ==
    [zones |-> zones, zones_list |-> sessions.objects[k].zones_list,
     dns_records |-> dns_records]

\* C36: no cross-session sharing: the zone list of an object holds only
\* zones of its own account, an object that has just been constructed finds
\* no zone loaded and no record in its cache, and a step taken by one object
\* leaves the zones, the zone list and the records of every other object as
\* they were
C36_NoSharing ==
    /\ [](\A k \in DOMAIN sessions.objects :
             Range(sessions.objects[k].zones_list)
                 \subseteq Range(sessions.objects[k].account))
    /\ [](sessions.fresh =>
             /\ dns_records = EmptyMap
             /\ \A z \in DOMAIN zones : zones[z].records = EmptyMap)
    /\ [][\A k \in DOMAIN sessions.objects :
             sessions'.actor # k => SessionView(k)' = SessionView(k)]_vars

\* the --domain value is a known zone, or no known zone is a suffix of it
RejectedDomain ==
    /\ args.domain # "none"
    /\ \/ is_zone(zones_list, DomainValue[args.domain])
       \/ ~has_root_zone(zones_list, DomainValue[args.domain])

\* main never gets to fill the target tree or to run a pass, and the only
\* request it may have sent is the zone list of the constructor
NoRecordCall ==
    /\ proc.pc \notin {"tree", "dispatch"}
    /\ proc.reason # "completed"
    /\ proc.requests <= 1

====
